---------------------------- MODULE Spec2Model ----------------------------
(***************************************************************************)
(* Model of the PlantX decision-routing pipeline                           *)
(* (Backend/src/inference_pipeline.py, utils.py, blip_fallback.py,         *)
(* llm_advisor.py, llm_advisor_hf.py).                                     *)
(*                                                                         *)
(* Conventions                                                             *)
(*  - A probability is an integer number of 1/Scale units; a threshold is  *)
(*    an integer number of 1/ThresholdDen units.  p >= t is decided by     *)
(*    cross-multiplication, so no rounding is introduced by the model.     *)
(*    (float32 rounding of the classifier output is not modelled.)         *)
(*  - A Python str that the code takes apart (class labels, diagnoses) is  *)
(*    a sequence of one-character strings.  Texts the code only passes on  *)
(*    (messages, captions, advice) are atomic strings or tuples of them.   *)
(*  - Python None is the empty tuple <<>>, a present value x is <<x>>.     *)
(*  - An exception is a record [raised |-> TRUE, exc |-> type, msg |-> m]. *)
(***************************************************************************)
EXTENDS Integers, Sequences, FiniteSets, TLC

(***************************************************************************)
(* Bounds of the model                                                     *)
(***************************************************************************)
\* number of classes the classifier emits
NumClasses == 3
\* resolution of a probability: a probability is k/Scale
Scale == 4
\* number of request slots (predict invocations that may be in flight)
NumReqs == 1

(***************************************************************************)
(* Program constants                                                       *)
(***************************************************************************)
\* thresholds are written in tenths (0.7, 0.2)
ThresholdDen == 10
DefaultConfidenceThreshold == 7
DefaultGapThreshold == 2
TopK == 3
MaxSizeMb == 10
BytesPerMb == 1048576

None == <<>>
Some(x) == <<x>>

(***************************************************************************)
(* Python str operations on character sequences                            *)
(***************************************************************************)
LowerLetters == <<"a","b","c","d","e","f","g","h","i","j","k","l","m","n","o","p","q","r","s","t","u","v","w","x","y","z">>
UpperLetters == <<"A","B","C","D","E","F","G","H","I","J","K","L","M","N","O","P","Q","R","S","T","U","V","W","X","Y","Z">>

IsLower(c) == \E i \in 1..26 : LowerLetters[i] = c
IsUpper(c) == \E i \in 1..26 : UpperLetters[i] = c
IsCased(c) == IsLower(c) \/ IsUpper(c)
LetterIndex(c) == CHOOSE i \in 1..26 : LowerLetters[i] = c \/ UpperLetters[i] = c
CharLower(c) == IF IsCased(c) THEN LowerLetters[LetterIndex(c)] ELSE c
CharUpper(c) == IF IsCased(c) THEN UpperLetters[LetterIndex(c)] ELSE c

\* str.lower()
StrLower(s) == [i \in 1..Len(s) |-> CharLower(s[i])]

\* str.title(): a cased character is upper-cased when it follows an uncased
\* character (or starts the string) and lower-cased otherwise
StrTitle(s) ==
  [i \in 1..Len(s) |->
     IF i = 1 \/ ~IsCased(s[i-1]) THEN CharUpper(s[i]) ELSE CharLower(s[i])]

\* str.replace(old, new) for one-character old and new
StrReplaceChar(s, old, new) == [i \in 1..Len(s) |-> IF s[i] = old THEN new ELSE s[i]]

\* sub occurs in s at position i
OccursAt(s, sub, i) ==
  /\ i >= 1
  /\ i + Len(sub) - 1 <= Len(s)
  /\ \A j \in 1..Len(sub) : s[i + j - 1] = sub[j]

\* sub in s
StrContains(s, sub) == \E i \in 1..(Len(s) + 1) : OccursAt(s, sub, i)

\* s.find(sub) + 1, or 0 when sub does not occur
StrFind(s, sub) ==
  IF StrContains(s, sub)
    THEN CHOOSE i \in 1..(Len(s) + 1) :
           OccursAt(s, sub, i) /\ \A k \in 1..(i - 1) : ~OccursAt(s, sub, k)
    ELSE 0

\* s.split(sep)[0]
StrBeforeFirst(s, sep) ==
  IF StrFind(s, sep) = 0 THEN s ELSE SubSeq(s, 1, StrFind(s, sep) - 1)

\* s.split(sep, 1)[1], defined when sep occurs in s
StrAfterFirst(s, sep) == SubSeq(s, StrFind(s, sep) + Len(sep), Len(s))

StrHealthy == <<"h","e","a","l","t","h","y">>
StrSeparator == <<" ","-"," ">>
StrPlant == <<"p","l","a","n","t">>
StrLowConfidence == <<" ","(","L","o","w"," ","C","o","n","f","i","d","e","n","c","e",")">>
StrUncertain == <<"U","n","c","e","r","t","a","i","n"," ","-"," ","V","i","s","u","a","l"," ","A","n","a","l","y","s","i","s">>

(***************************************************************************)
(* utils.py                                                                *)
(***************************************************************************)
\* format_disease_name(raw_name)
format_disease_name(raw_name) ==
  LET formatted == StrReplaceChar(raw_name, "_", " ")
  IN  IF StrContains(formatted, <<" ">>)
        THEN StrBeforeFirst(formatted, <<" ">>) \o StrSeparator
               \o StrTitle(StrAfterFirst(formatted, <<" ">>))
        ELSE StrTitle(formatted)


\* The probability vectors the classifier can emit: NumClasses entries that
\* sum to 1 (Scale units).  Entry i+1 is the probability of class id i.
RECURSIVE SeqSum(_)
SeqSum(v) == IF v = <<>> THEN 0 ELSE Head(v) + SeqSum(Tail(v))

ProbVectors == {v \in [1..NumClasses -> 0..Scale] : SeqSum(v) = Scale}

\* np.argsort(v), quicksort kind: the class ids in ascending order of
\* probability.  The sort is not stable: which of two ids of equal
\* probability comes first depends on the numpy build (insertion sort,
\* introsort or a vectorised sorting network) and on the array's length,
\* so every ascending order of the ids is an outcome.
np_argsort(v) ==
  {o \in [1..Len(v) -> 0..(Len(v) - 1)] :
     /\ \A a, b \in 1..Len(v) : a # b => o[a] # o[b]
     /\ \A k \in 1..(Len(v) - 1) : v[o[k] + 1] <= v[o[k + 1] + 1]}

\* np.argmax(v): the first class id holding the maximum
np_argmax(v) ==
  (CHOOSE i \in 1..Len(v) :
     /\ \A j \in 1..Len(v) : v[j] <= v[i]
     /\ \A j \in 1..(i - 1) : v[j] < v[i]) - 1

\* a[-k:] of a Python/numpy sequence, k >= 0 (a[-0:] is all of a)
LastK(a, k) ==
  IF k = 0 \/ k >= Len(a) THEN a ELSE SubSeq(a, Len(a) - k + 1, Len(a))

\* a[::-1]
Reversed(a) == [i \in 1..Len(a) |-> a[Len(a) + 1 - i]]

calculate_confidence_metrics_ascending(v, top_k, order) ==
  LET top_indices == LastK(order, top_k)
      top_confidences == [i \in 1..Len(top_indices) |-> v[top_indices[i] + 1]]
  IN  [max_confidence |-> top_confidences[1],
       confidence_gap |-> IF Len(top_confidences) > 1
                            THEN top_confidences[1] - top_confidences[2]
                            ELSE Scale,
       top_k_indices |-> top_indices,
       top_k_confidences |-> top_confidences]

\* calculate_confidence_metrics(predictions, top_k), where order is what
\* np.argsort returned; entropy is left out
calculate_confidence_metrics(v, top_k, order) ==
  LET top_indices == Reversed(LastK(order, top_k))
      top_confidences == [i \in 1..Len(top_indices) |-> v[top_indices[i] + 1]]
  IN  [max_confidence |-> top_confidences[1],
       confidence_gap |-> IF Len(top_confidences) > 1
                            THEN top_confidences[1] - top_confidences[2]
                            ELSE Scale,
       top_k_indices |-> top_indices,
       top_k_confidences |-> top_confidences]

\* p >= t for a probability p (1/Scale units) and a threshold t (1/ThresholdDen units)
AtLeast(p, t) == p * ThresholdDen >= t * Scale

is_prediction_reliable_or(confidence_metrics, threshold, min_gap) ==
  \/ AtLeast(confidence_metrics.max_confidence, threshold)
  \/ AtLeast(confidence_metrics.confidence_gap, min_gap)

\* is_prediction_reliable(confidence_metrics, threshold, min_gap)
is_prediction_reliable(confidence_metrics, threshold, min_gap) ==
  /\ AtLeast(confidence_metrics.max_confidence, threshold)
  /\ AtLeast(confidence_metrics.confidence_gap, min_gap)

(***************************************************************************)
(* Image files.  A file is what the three readers of the code see of it:   *)
(* os.path.exists / getsize, PIL's Image.open().verify(), PIL's full       *)
(* decode (Image.open().convert('RGB')) and OpenCV's cv2.imread.           *)
(***************************************************************************)
MaxBytes == MaxSizeMb * BytesPerMb
FileSizes == {1, MaxBytes - 1, MaxBytes, MaxBytes + 1}

NoFile == [exists |-> FALSE, size |-> 0, verifies |-> FALSE,
           decodes |-> FALSE, cv2reads |-> FALSE]

\* verify() reads headers only: a file can verify and still fail to decode
\* (truncated data), and OpenCV reads some formats PIL does and not others
ImageFiles ==
  {NoFile} \cup
  {f \in [exists : {TRUE}, size : FileSizes, verifies : BOOLEAN,
          decodes : BOOLEAN, cv2reads : BOOLEAN] :
     ~f.verifies => (~f.decodes /\ ~f.cv2reads)}

\* The files predict is called with
RequestImages == {f \in ImageFiles : f.size \in {0, MaxBytes, MaxBytes + 1}}

Message(text, size, cause) == [text |-> text, size |-> size, cause |-> cause]

MsgNotExist == Message("File does not exist", 0, "")
MsgTooLarge(size) == Message("File too large (%.2f MB > %d MB)", size, "")
MsgInvalid(cause) == Message("Invalid image file: %s", 0, cause)
MsgValid == Message("Valid image", 0, "")

validate_image_rejects_max(image, max_size_mb) ==
  IF ~image.exists THEN <<FALSE, MsgNotExist>>
  ELSE IF image.size >= max_size_mb * BytesPerMb THEN <<FALSE, MsgTooLarge(image.size)>>
  ELSE IF ~image.verifies THEN <<FALSE, MsgInvalid("cannot identify image file")>>
  ELSE <<TRUE, MsgValid>>

\* validate_image(image_path, max_size_mb): (is_valid, message).
\* size / (1024 * 1024) > max_size_mb is exact for these sizes, so it is
\* decided on the byte count.
validate_image(image, max_size_mb) ==
  IF ~image.exists THEN <<FALSE, MsgNotExist>>
  ELSE IF image.size > max_size_mb * BytesPerMb THEN <<FALSE, MsgTooLarge(image.size)>>
  ELSE IF ~image.verifies THEN <<FALSE, MsgInvalid("cannot identify image file")>>
  ELSE <<TRUE, MsgValid>>

\* Results of a call that may raise
Ok(value) == [raised |-> FALSE, exc |-> "", msg |-> "", value |-> value]
Raise(exc, msg) == [raised |-> TRUE, exc |-> exc, msg |-> msg, value |-> <<>>]

\* preprocess_image(image_path): the array, or what Image.open / convert raises
preprocess_image(image) ==
  IF ~image.exists THEN Raise("FileNotFoundError", "No such file or directory")
  ELSE IF ~image.decodes THEN Raise("OSError", "image file is truncated")
  ELSE Ok(<<"img_array">>)

\* enhance_image_for_analysis(image_path): cv2.imread returns None for a file
\* it cannot read and cv2.cvtColor(None, ...) raises
enhance_image_for_analysis(image) ==
  IF ~image.exists \/ ~image.cv2reads
    THEN Raise("cv2.error", "(-215:Assertion failed) !_src.empty() in function 'cvtColor'")
    ELSE Ok(<<"enhanced_pil">>)

(***************************************************************************)
(* blip_fallback.py                                                        *)
(***************************************************************************)
\* The captions the captioning model can generate
Captions == {"a leaf", "brown spots"}

\* What one call of model.generate can do: return a caption or raise
CaptionOutcomes ==
  {[raised |-> FALSE, exc |-> "", msg |-> "", value |-> c] : c \in Captions}
    \cup {[raised |-> TRUE, exc |-> "RuntimeError", msg |-> "generate failed", value |-> ""]}

\* str.strip() of a text whose segments are the literals and captions below:
\* only a trailing ". " loses its blank
StripText(t) ==
  IF Len(t) > 0 /\ t[Len(t)] = ". "
    THEN [i \in 1..Len(t) |-> IF i = Len(t) THEN "." ELSE t[i]]
    ELSE t

create_combined_description_no_dedup(general, symptoms, features) ==
  LET c1 == <<"Visual Analysis: ", general, ". ">>
      c2 == IF symptoms # ""
              THEN c1 \o <<"Disease Symptoms: ", symptoms, ". ">>
              ELSE c1
      c3 == IF features # ""
              THEN c2 \o <<"Additional Features: ", features, ".">>
              ELSE c2
  IN  StripText(c3)

\* BLIPImageAnalyzer._create_combined_description(general, symptoms, features)
create_combined_description(general, symptoms, features) ==
  LET c1 == <<"Visual Analysis: ", general, ". ">>
      c2 == IF symptoms # "" /\ symptoms # general
              THEN c1 \o <<"Disease Symptoms: ", symptoms, ". ">>
              ELSE c1
      c3 == IF features # "" /\ features # general /\ features # symptoms
              THEN c2 \o <<"Additional Features: ", features, ".">>
              ELSE c2
  IN  StripText(c3)

BlipFailure(msg) ==
  [general_description |-> "Unable to analyze image",
   disease_symptoms |-> "Analysis failed",
   visual_features |-> "Analysis failed",
   combined_description |-> <<"Error: ", msg>>]

\* BLIPImageAnalyzer.analyze_image(image): gen is what the three generate
\* calls (general, symptoms, features) would do, in that order.  The value
\* is the result dictionary and the number of generate calls made.
analyze_image(gen) ==
  IF gen[1].raised THEN [result |-> BlipFailure(gen[1].msg), calls |-> 1]
  ELSE IF gen[2].raised THEN [result |-> BlipFailure(gen[2].msg), calls |-> 2]
  ELSE IF gen[3].raised THEN [result |-> BlipFailure(gen[3].msg), calls |-> 3]
  ELSE [result |->
          [general_description |-> gen[1].value,
           disease_symptoms |-> gen[2].value,
           visual_features |-> gen[3].value,
           combined_description |->
             create_combined_description(gen[1].value, gen[2].value, gen[3].value)],
        calls |-> 3]

\* The generate outcomes as analyze_image consumes them: nothing is
\* generated after the first failure
GenOutcomes ==
  {g \in [1..3 -> CaptionOutcomes] :
     /\ g[1].raised => g[2] = g[1]
     /\ g[2].raised => g[3] = g[2]}

(***************************************************************************)
(* llm_advisor.py (local Ollama daemon) and llm_advisor_hf.py (hosted API) *)
(***************************************************************************)
\* What requests.post can do.  kind: timeout, connection_error, or response
\* (an HTTP response with a status and a body).  body: not_json (not
\* parseable), object (a JSON object), list_of_object, list_of_other,
\* empty_list, scalar (a JSON string or number).  field says what the
\* object holds under the adapter's text key ('response' / 'generated_text'):
\* text (a string), missing, or null.
HttpResponse(kind, status, body, field) ==
  [kind |-> kind, status |-> status, body |-> body, field |-> field]

LlmResponses ==
  {HttpResponse("timeout", 0, "none", "none"),
   HttpResponse("connection_error", 0, "none", "none"),
   HttpResponse("response", 503, "object", "missing"),
   HttpResponse("response", 410, "object", "missing"),
   HttpResponse("response", 500, "not_json", "none"),
   HttpResponse("response", 200, "not_json", "none"),
   HttpResponse("response", 200, "object", "text"),
   HttpResponse("response", 200, "object", "missing"),
   HttpResponse("response", 200, "object", "null"),
   HttpResponse("response", 200, "list_of_object", "text"),
   HttpResponse("response", 200, "list_of_other", "none"),
   HttpResponse("response", 200, "empty_list", "none"),
   HttpResponse("response", 200, "scalar", "none")}

LlmText == <<"generated advice">>

\* dict.get(key, 'No response generated') on the parsed object
FieldValue(field) ==
  CASE field = "text" -> Ok(Some(LlmText))
    [] field = "null" -> Ok(None)
    [] OTHER -> Ok(Some(<<"No response generated">>))

\* response.json() on a body that is not JSON raises
\* requests.exceptions.JSONDecodeError, a RequestException, when the
\* installed requests is 2.27 or later (wraps = TRUE) and a plain ValueError
\* before that (wraps = FALSE)
\* AgricultureAdvisor._query_llm of llm_advisor.py: the returned value
\* (Some(text) for a str, None) or the exception that leaves the method
query_llm_ollama(resp, wraps) ==
  CASE resp.kind = "timeout" ->
         Ok(Some(<<"Error: Request timed out. TinyLLaMA may be processing slowly on CPU.">>))
    [] resp.kind = "connection_error" ->
         Ok(Some(<<"Error querying LLM: ", "Connection refused">>))
    [] resp.status >= 400 ->
         Ok(Some(<<"Error querying LLM: ", "HTTPError">>))
    [] resp.body = "not_json" ->
         IF wraps THEN Ok(Some(<<"Error querying LLM: ", "JSONDecodeError">>))
                  ELSE Raise("ValueError", "Expecting value")
    [] resp.body = "object" -> FieldValue(resp.field)
    [] OTHER -> Raise("AttributeError", "object has no attribute 'get'")

\* AgricultureAdvisor._query_llm of llm_advisor_hf.py
query_llm_hf(resp, wraps) ==
  CASE resp.kind = "timeout" ->
         Ok(Some(<<"The AI advisor is taking longer than expected. Using fallback advice.">>))
    [] resp.kind = "connection_error" ->
         Ok(Some(<<"AI advisor temporarily unavailable. Using fallback advice.">>))
    [] resp.status = 503 ->
         Ok(Some(<<"The AI advisor is currently loading. Please try again in a moment.">>))
    [] resp.status = 410 ->
         Ok(Some(<<"The AI advisor model is currently unavailable. Using fallback advice.">>))
    [] resp.status >= 400 ->
         Ok(Some(<<"AI advisor temporarily unavailable. Using fallback advice.">>))
    [] resp.body = "not_json" ->
         IF wraps THEN Ok(Some(<<"AI advisor temporarily unavailable. Using fallback advice.">>))
                  ELSE Raise("ValueError", "Expecting value")
    [] resp.body = "list_of_object" -> FieldValue(resp.field)
    [] resp.body = "list_of_other" ->
         Raise("AttributeError", "object has no attribute 'get'")
    [] resp.body = "object" -> FieldValue(resp.field)
    [] OTHER -> Ok(Some(<<"str(result)">>))

\* _extract_summary(response): the first paragraph, cut to 200 characters
extract_summary(response) == <<"summary of: ">> \o response

StrVisualAnalysisBased == <<"V","i","s","u","a","l"," ","A","n","a","l","y","s","i","s"," ","B","a","s","e","d">>

\* _parse_llm_response(response, disease_name, confidence, is_blip)
parse_llm_response(response, disease_name, confidence, is_blip) ==
  [diagnosis |-> disease_name,
   confidence |-> confidence,
   source |-> IF is_blip THEN "Visual Analysis (BLIP)" ELSE "CNN Classification",
   full_advice |-> response,
   summary |-> extract_summary(response),
   timestamp |-> "now"]

\* _create_cnn_prompt(disease_name, confidence, plant_type)
create_cnn_prompt(disease_name, confidence, plant_type) ==
  [template |-> IF StrContains(StrLower(disease_name), StrHealthy)
                  THEN "cnn_healthy" ELSE "cnn_disease",
   disease_name |-> disease_name,
   confidence |-> confidence,
   plant_type |-> plant_type,
   visual_description |-> <<>>,
   disease_symptoms |-> "",
   visual_features |-> ""]

\* _create_blip_prompt(visual_description, blip_result)
create_blip_prompt(visual_description, blip_result) ==
  [template |-> "blip",
   disease_name |-> <<>>,
   confidence |-> 0,
   plant_type |-> <<>>,
   visual_description |-> visual_description,
   disease_symptoms |-> blip_result.disease_symptoms,
   visual_features |-> blip_result.visual_features]

\* The tail of get_advice_for_*: _query_llm's value goes through
\* _parse_llm_response, whose _extract_summary calls response.split and so
\* raises on a value that is not a str
AdviceFrom(queried, disease_name, confidence, is_blip) ==
  IF queried.raised THEN queried
  ELSE IF queried.value = None
    THEN Raise("AttributeError", "'NoneType' object has no attribute 'split'")
  ELSE Ok(parse_llm_response(queried.value[1], disease_name, confidence, is_blip))

\* get_advice_for_cnn_prediction(disease_name, confidence, plant_type)
get_advice_for_cnn_prediction(disease_name, confidence, plant_type, resp, wraps) ==
  AdviceFrom(query_llm_ollama(resp, wraps), disease_name, confidence, FALSE)

\* get_advice_for_blip_analysis(visual_description, blip_result)
get_advice_for_blip_analysis(visual_description, blip_result, resp, wraps) ==
  AdviceFrom(query_llm_ollama(resp, wraps), StrVisualAnalysisBased, 0, TRUE)

(***************************************************************************)
(* inference_pipeline.py                                                   *)
(***************************************************************************)
\* The raw class names of the catalog file, by class id (id i is entry
\* i + 1); ids past the names listed reuse them in turn
RawNames ==
  << <<"T","o","m","a","t","o","_","h","e","a","l","t","h","y">>,
     <<"T","o","m","a","t","o","_","L","a","t","e","_","b","l","i","g","h","t">>,
     <<"C","o","r","n">>,
     <<"P","e","p","p","e","r","_","_","b","e","l","l","_","_","_","h","e","a","l","t","h","y">> >>

\* load_class_indices: the catalog with n entries
Catalog(n) == [i \in 1..n |-> RawNames[((i - 1) % Len(RawNames)) + 1]]

\* class_indices[idx]: the raw name, or KeyError
HasClass(class_indices, idx) == idx + 1 \in 1..Len(class_indices)

create_basic_advice_case_sensitive(diagnosis, confidence) ==
  LET is_healthy == StrContains(diagnosis, StrHealthy)
      advice_text ==
        IF is_healthy
          THEN <<"Your plant appears to be HEALTHY (Confidence: ", ToString(confidence),
                 "). General Recommendations ... Preventive Measures ...">>
          ELSE <<"Disease Detected: ">> \o diagnosis
                 \o <<" (Confidence: ", ToString(confidence),
                      ") Immediate Actions ... Treatment Options ... Preventive Measures ...">>
  IN  [diagnosis |-> diagnosis,
       confidence |-> confidence,
       source |-> "Basic Advisory",
       full_advice |-> advice_text,
       summary |-> <<"Detected: ">> \o diagnosis
                     \o <<" with ", ToString(confidence), " confidence">>,
       timestamp |-> "now"]

\* _create_basic_advice(diagnosis, confidence)
create_basic_advice(diagnosis, confidence) ==
  LET is_healthy == StrContains(StrLower(diagnosis), StrHealthy)
      advice_text ==
        IF is_healthy
          THEN <<"Your plant appears to be HEALTHY (Confidence: ", ToString(confidence),
                 "). General Recommendations ... Preventive Measures ...">>
          ELSE <<"Disease Detected: ">> \o diagnosis
                 \o <<" (Confidence: ", ToString(confidence),
                      ") Immediate Actions ... Treatment Options ... Preventive Measures ...">>
  IN  [diagnosis |-> diagnosis,
       confidence |-> confidence,
       source |-> "Basic Advisory",
       full_advice |-> advice_text,
       summary |-> <<"Detected: ">> \o diagnosis
                     \o <<" with ", ToString(confidence), " confidence">>,
       timestamp |-> "now"]

\* _run_cnn_prediction(image_path): model_out is what cnn_model.predict does
\* (Ok(vector) or an exception), order what np.argsort returns for the
\* vector.  The value is the result dictionary.
run_cnn_prediction(class_indices, image, model_out, order) ==
  LET img == preprocess_image(image)
      v == model_out.value
      predicted_idx == np_argmax(v)
      metrics == calculate_confidence_metrics(v, TopK, order)
  IN  IF img.raised THEN img
      ELSE IF model_out.raised THEN model_out
      ELSE IF ~HasClass(class_indices, predicted_idx)
        THEN Raise("KeyError", ToString(predicted_idx))
      ELSE IF \E k \in 1..Len(metrics.top_k_indices) :
                ~HasClass(class_indices, metrics.top_k_indices[k])
        THEN Raise("KeyError", "top_k index")
      ELSE Ok([disease_name |-> format_disease_name(class_indices[predicted_idx + 1]),
               confidence |-> v[predicted_idx + 1],
               confidence_metrics |-> metrics,
               top_3_predictions |->
                 [k \in 1..Len(metrics.top_k_indices) |->
                    [disease |-> format_disease_name(
                                   class_indices[metrics.top_k_indices[k] + 1]),
                     confidence |-> metrics.top_k_confidences[k]]],
               raw_predictions |-> v])

(***************************************************************************)
(* State                                                                   *)
(***************************************************************************)
VARIABLES
  cfg,       \* the arguments given to PlantDiseaseInferencePipeline(...)
  pipeline,  \* the pipeline object's attributes, and whether it was built
  pc,        \* per request: where predict stands
  req,       \* per request: predict's arguments, locals and returned value
  calls,     \* per request: how often each collaborator was invoked
  fcall,     \* the last direct call of a helper function: name, arguments, value
  app        \* app.py: the temp files, the /predict handlers, the event loop

vars == <<cfg, pipeline, pc, req, calls, fcall, app>>

Reqs == 1..NumReqs

\* The constructor arguments exercised: the defaults (0.7, 0.2) and a pair
\* with a lower confidence threshold (0.5, 0.2), under which some outputs
\* are judged differently than under the defaults and an output can pass
\* the confidence test and fail the gap test
ThresholdChoices == {<<DefaultConfidenceThreshold, DefaultGapThreshold>>, <<5, 2>>}

\* log: what __init__ did, in order (model and catalog loads, the captioning
\* model's load, the advisory service's liveness check), with each outcome
Unbuilt ==
  [state |-> "unbuilt", error |-> "",
   confidence_threshold |-> 0, confidence_gap_threshold |-> 0,
   use_blip |-> FALSE, use_llm |-> FALSE,
   cnn_model |-> FALSE, class_indices |-> <<>>,
   blip_analyzer |-> FALSE, advisor |-> FALSE, log |-> <<>>]

\* predict's locals before it runs
IdleReq ==
  [image |-> NoFile, cnn_result |-> None, use_cnn |-> None,
   final_diagnosis |-> None, final_confidence |-> None, source |-> None,
   visual_description |-> None, blip_result |-> None, prompt |-> None,
   llm_response |-> None, advice |-> None, result |-> None, exception |-> None]

NoCalls == [cnn |-> 0, enhance |-> 0, blip |-> 0, generate |-> 0, llm |-> 0]

NoCall == [fn |-> "none"]

\* app.py: the /predict handlers under way at once, one more than predict's
\* sequential callers
AppReqs == 1..(NumReqs + 1)

\* The uploaded file names: a plain name, and one with a directory part
FileNames == {<<"leaf.jpg">>, <<"dir", "leaf.jpg">>}

\* line 39: temp_path = f"temp_{image.filename}"
TempPath(filename) == <<"temp_">> \o filename

TempPaths == {TempPath(n) : n \in FileNames}

\* A handler before its request arrives
IdleHandler ==
  [pc |-> "idle", filename |-> <<>>, upload |-> NoFile, temp_path |-> <<>>,
   result |-> None, exception |-> None, response |-> None]

\* The server before any request: no temp file, the event loop free
AppIdle ==
  [files |-> [path \in TempPaths |-> None],
   h |-> [r \in AppReqs |-> IdleHandler],
   running |-> 0]

Init ==
  /\ cfg \in {[confidence_threshold |-> t[1], confidence_gap_threshold |-> t[2],
               use_blip |-> b, use_llm |-> l] :
                t \in ThresholdChoices, b \in BOOLEAN, l \in BOOLEAN}
  /\ pipeline = Unbuilt
  /\ pc = [r \in Reqs |-> "idle"]
  /\ req = [r \in Reqs |-> IdleReq]
  /\ calls = [r \in Reqs |-> NoCalls]
  /\ fcall = NoCall
  /\ app = AppIdle

(***************************************************************************)
(* PlantDiseaseInferencePipeline.__init__                                  *)
(***************************************************************************)
\* c: the constructor's arguments; model_file: the CNN model file exists;
\* catalog: the catalog file is "missing", or holds an entry for every class
\* ("full") or lacks the last class id ("short"); blip_loads:
\* BLIPImageAnalyzer() succeeds; ollama_up: GET /api/tags answers 200 within
\* the timeout
Failed(error, log) == [Unbuilt EXCEPT !.state = "failed", !.error = error, !.log = log]

BlipLog(c, blip_loads) ==
  IF c.use_blip THEN <<IF blip_loads THEN "blip:loaded" ELSE "blip:failed">> ELSE <<>>

LivenessLog(c, ollama_up) ==
  IF c.use_llm THEN <<IF ollama_up THEN "liveness:ok" ELSE "liveness:unreachable">>
               ELSE <<>>

ReadyKeepsRequestedFlags(c, catalog, blip_loads, ollama_up, log) ==
  [state |-> "ready", error |-> "",
   confidence_threshold |-> c.confidence_threshold,
   confidence_gap_threshold |-> c.confidence_gap_threshold,
   use_blip |-> c.use_blip,
   use_llm |-> c.use_llm,
   cnn_model |-> TRUE,
   class_indices |-> Catalog(IF catalog = "full" THEN NumClasses ELSE NumClasses - 1),
   blip_analyzer |-> c.use_blip /\ blip_loads,
   advisor |-> c.use_llm /\ ollama_up,
   log |-> log]

ReadyWithDefaultThresholds(c, catalog, blip_loads, ollama_up, log) ==
  [state |-> "ready", error |-> "",
   confidence_threshold |-> DefaultConfidenceThreshold,
   confidence_gap_threshold |-> DefaultGapThreshold,
   use_blip |-> c.use_blip /\ blip_loads,
   use_llm |-> c.use_llm /\ ollama_up,
   cnn_model |-> TRUE,
   class_indices |-> Catalog(IF catalog = "full" THEN NumClasses ELSE NumClasses - 1),
   blip_analyzer |-> c.use_blip /\ blip_loads,
   advisor |-> c.use_llm /\ ollama_up,
   log |-> log]

Ready(c, catalog, blip_loads, ollama_up, log) ==
  [state |-> "ready", error |-> "",
   confidence_threshold |-> c.confidence_threshold,
   confidence_gap_threshold |-> c.confidence_gap_threshold,
   use_blip |-> c.use_blip /\ blip_loads,
   use_llm |-> c.use_llm /\ ollama_up,
   cnn_model |-> TRUE,
   class_indices |-> Catalog(IF catalog = "full" THEN NumClasses ELSE NumClasses - 1),
   blip_analyzer |-> c.use_blip /\ blip_loads,
   advisor |-> c.use_llm /\ ollama_up,
   log |-> log]

BuiltFailsWithOptionalStage(c, model_file, catalog, blip_loads, ollama_up) ==
  IF ~model_file
    THEN Failed("FileNotFoundError: Model not found", <<"model:missing">>)
  ELSE IF catalog = "missing"
    THEN Failed("FileNotFoundError: class indices", <<"model:loaded", "catalog:missing">>)
  ELSE IF c.use_blip /\ ~blip_loads
    THEN Failed("OSError: BLIP", <<"model:loaded", "catalog:loaded", "blip:failed">>)
  ELSE IF c.use_llm /\ ~ollama_up
    THEN Failed("ConnectionError: Cannot connect to Ollama",
                <<"model:loaded", "catalog:loaded">> \o BlipLog(c, blip_loads)
                  \o <<"liveness:unreachable">>)
  ELSE Ready(c, catalog, blip_loads, ollama_up,
             <<"model:loaded", "catalog:loaded">> \o BlipLog(c, blip_loads)
               \o LivenessLog(c, ollama_up))

BuiltLoadsModelLast(c, model_file, catalog, blip_loads, ollama_up) ==
  IF ~model_file
    THEN Failed("FileNotFoundError: Model not found",
                BlipLog(c, blip_loads) \o LivenessLog(c, ollama_up) \o <<"model:missing">>)
  ELSE IF catalog = "missing"
    THEN Failed("FileNotFoundError: class indices",
                BlipLog(c, blip_loads) \o LivenessLog(c, ollama_up)
                  \o <<"model:loaded", "catalog:missing">>)
  ELSE Ready(c, catalog, blip_loads, ollama_up,
             BlipLog(c, blip_loads) \o LivenessLog(c, ollama_up)
               \o <<"model:loaded", "catalog:loaded">>)

\* __init__ (lines 56-90): the object it leaves behind
Built(c, model_file, catalog, blip_loads, ollama_up) ==
  IF ~model_file
    THEN Failed("FileNotFoundError: Model not found", <<"model:missing">>)
  ELSE IF catalog = "missing"
    THEN Failed("FileNotFoundError: class indices", <<"model:loaded", "catalog:missing">>)
  ELSE Ready(c, catalog, blip_loads, ollama_up,
             <<"model:loaded", "catalog:loaded">> \o BlipLog(c, blip_loads)
               \o LivenessLog(c, ollama_up))

Construct ==
  /\ pipeline.state = "unbuilt"
  /\ \E model_file \in BOOLEAN, catalog \in {"full", "short", "missing"},
        blip_loads \in BOOLEAN, ollama_up \in BOOLEAN :
       pipeline' = Built(cfg, model_file, catalog, blip_loads, ollama_up)
  /\ UNCHANGED <<cfg, pc, req, calls, fcall, app>>

(***************************************************************************)
(* PlantDiseaseInferencePipeline.predict, one action per stage             *)
(***************************************************************************)
FailureResult(message) == [success |-> FALSE, error |-> message]

ValidateKeepsGoing(r, image) ==
  /\ req' = [req EXCEPT ![r] = [@ EXCEPT !.image = image]]
  /\ pc' = [pc EXCEPT ![r] = "classify"]

\* lines 123-129: validate the image; an invalid one ends the request
ValidateStep(r, image) ==
  LET res == validate_image(image, MaxSizeMb)
  IN  /\ req' = [req EXCEPT ![r] =
                   [@ EXCEPT !.image = image,
                             !.result = IF res[1] THEN None
                                        ELSE Some(FailureResult(res[2]))]]
      /\ pc' = [pc EXCEPT ![r] = IF res[1] THEN "classify" ELSE "done"]

\* predict is called on the built pipeline; its callers (the command line,
\* and the HTTP handler, a coroutine that never awaits) run one call to
\* its end before the next begins
Validate(r) ==
  /\ pipeline.state = "ready"
  /\ \A q \in Reqs : pc[q] = "idle"
  /\ \E image \in RequestImages : ValidateStep(r, image)
  /\ UNCHANGED <<cfg, pipeline, calls, fcall, app>>

\* What cnn_model.predict can do
ModelOutcomes == {Ok(v) : v \in ProbVectors} \cup {Raise("ResourceExhaustedError", "OOM")}

\* What np.argsort can return in _run_cnn_prediction; it is not reached
\* when preprocessing or the model raised
SortOutcomes(image, model_out) ==
  IF preprocess_image(image).raised \/ model_out.raised
    THEN {<<>>}
    ELSE np_argsort(model_out.value)

\* line 135 when the model does model_out and np.argsort returns order
ClassifyWith(r, model_out, order) ==
  LET res == run_cnn_prediction(pipeline.class_indices, req[r].image, model_out, order)
  IN  /\ req' = [req EXCEPT ![r] =
                   IF res.raised
                     THEN [@ EXCEPT !.exception = Some([exc |-> res.exc, msg |-> res.msg])]
                     ELSE [@ EXCEPT !.cnn_result = Some(res.value)]]
      /\ pc' = [pc EXCEPT ![r] = IF res.raised THEN "raised" ELSE "route"]
      /\ calls' = [calls EXCEPT ![r].cnn =
                     IF preprocess_image(req[r].image).raised THEN @ ELSE @ + 1]

\* line 135: cnn_result = self._run_cnn_prediction(image_path)
Classify(r) ==
  /\ pc[r] = "classify"
  /\ \E model_out \in ModelOutcomes :
     \E order \in SortOutcomes(req[r].image, model_out) :
       ClassifyWith(r, model_out, order)
  /\ UNCHANGED <<cfg, pipeline, fcall, app>>

SourceCnn == "CNN Classification"
SourceBlip == "BLIP Visual Analysis"
SourceLow == "CNN Classification (Low Confidence)"

\* source.startswith("BLIP") on the three route names
StartsWithBlip(source) == source = SourceBlip

ChooseBranchBlipFirst(use_cnn, p) ==
  IF p.use_blip /\ p.blip_analyzer THEN "blip"
  ELSE IF use_cnn THEN "cnn"
  ELSE "low"

\* lines 150, 163: which branch of the routing predict takes
ChooseBranch(use_cnn, p) ==
  IF use_cnn THEN "cnn"
  ELSE IF p.use_blip /\ p.blip_analyzer THEN "blip"
  ELSE "low"

Locals(diagnosis, confidence, source, visual_description) ==
  [final_diagnosis |-> diagnosis, final_confidence |-> confidence,
   source |-> source, visual_description |-> visual_description]

\* lines 154-157
TakeCnn(cnn) == Locals(cnn.disease_name, cnn.confidence, SourceCnn, None)

TakeBlipDropsConfidence(cnn, blip_result) ==
  Locals(StrUncertain, 0, SourceBlip, Some(blip_result.combined_description))

\* lines 168-171
TakeBlip(cnn, blip_result) ==
  Locals(StrUncertain, cnn.confidence, SourceBlip,
         Some(blip_result.combined_description))

TakeLowConfidenceUnmarked(cnn) ==
  Locals(cnn.disease_name, cnn.confidence, SourceLow, None)

\* lines 176-179
TakeLowConfidence(cnn) ==
  Locals(cnn.disease_name \o StrLowConfidence, cnn.confidence, SourceLow, None)

\* lines 144-148: the policy decision of request r
UseCnn(r) ==
  is_prediction_reliable(req[r].cnn_result[1].confidence_metrics,
                         pipeline.confidence_threshold,
                         pipeline.confidence_gap_threshold)

\* lines 144-157, 172-179: the policy decision, and the branches that call
\* no collaborator
Route(r) ==
  /\ pc[r] = "route"
  /\ ChooseBranch(UseCnn(r), pipeline) # "blip"
  /\ LET cnn == req[r].cnn_result[1]
         locals == IF ChooseBranch(UseCnn(r), pipeline) = "cnn"
                     THEN TakeCnn(cnn) ELSE TakeLowConfidence(cnn)
     IN  req' = [req EXCEPT ![r] =
                   [@ EXCEPT !.use_cnn = Some(UseCnn(r)),
                             !.final_diagnosis = Some(locals.final_diagnosis),
                             !.final_confidence = Some(locals.final_confidence),
                             !.source = Some(locals.source),
                             !.visual_description = locals.visual_description]]
  /\ pc' = [pc EXCEPT ![r] = "advise"]
  /\ UNCHANGED <<cfg, pipeline, calls, fcall, app>>

\* lines 144-148, 163-171 and _run_blip_analysis: the policy decision and
\* the captioning fallback.  gen is what the captioning model's generate
\* calls do.
RouteBlipWith(r, gens) ==
  /\ pc[r] = "route"
  /\ ChooseBranch(UseCnn(r), pipeline) = "blip"
  /\ LET enhanced == enhance_image_for_analysis(req[r].image)
     IN  IF enhanced.raised
           THEN /\ req' = [req EXCEPT ![r] =
                             [@ EXCEPT !.use_cnn = Some(UseCnn(r)),
                                       !.exception = Some([exc |-> enhanced.exc,
                                                           msg |-> enhanced.msg])]]
                /\ pc' = [pc EXCEPT ![r] = "raised"]
                /\ calls' = [calls EXCEPT ![r].enhance = @ + 1]
           ELSE \E gen \in gens :
                  LET blip == analyze_image(gen)
                      locals == TakeBlip(req[r].cnn_result[1], blip.result)
                  IN  /\ req' = [req EXCEPT ![r] =
                                   [@ EXCEPT !.use_cnn = Some(UseCnn(r)),
                                             !.blip_result = Some(blip.result),
                                             !.final_diagnosis = Some(locals.final_diagnosis),
                                             !.final_confidence = Some(locals.final_confidence),
                                             !.source = Some(locals.source),
                                             !.visual_description = locals.visual_description]]
                      /\ pc' = [pc EXCEPT ![r] = "advise"]
                      /\ calls' = [calls EXCEPT ![r] =
                                     [@ EXCEPT !.enhance = @ + 1, !.blip = @ + 1,
                                               !.generate = @ + blip.calls]]
  /\ UNCHANGED <<cfg, pipeline, fcall, app>>

\* the fallback with anything the captioning model can do
RouteBlip(r) == RouteBlipWith(r, GenOutcomes)

PlantTypeFirstWord(final_diagnosis) ==
  IF StrContains(final_diagnosis, <<" ">>)
    THEN StrBeforeFirst(final_diagnosis, <<" ">>)
    ELSE StrPlant

\* line 193: the plant type handed to the advisor
PlantType(final_diagnosis) ==
  IF StrContains(final_diagnosis, StrSeparator)
    THEN StrBeforeFirst(final_diagnosis, StrSeparator)
    ELSE StrPlant

\* line 185: the advisor is used
Remote == pipeline.use_llm /\ pipeline.advisor

\* lines 185-198: advice from the advisor.  resp is what the advisory
\* service does with the one request (llm_response keeps whether it
\* answered, timed out or refused the connection), wraps which exception
\* response.json() raises in the installed requests.
AdviseRemoteWith(r, resps) ==
  /\ pc[r] = "advise"
  /\ Remote
  /\ \E resp \in resps, wraps \in BOOLEAN :
       LET diagnosis == req[r].final_diagnosis[1]
           confidence == req[r].final_confidence[1]
           is_blip == StartsWithBlip(req[r].source[1])
           prompt ==
             IF is_blip
               THEN create_blip_prompt(req[r].visual_description[1], req[r].blip_result[1])
               ELSE create_cnn_prompt(diagnosis, confidence, PlantType(diagnosis))
           advice ==
             IF is_blip
               THEN get_advice_for_blip_analysis(req[r].visual_description[1],
                                                 req[r].blip_result[1], resp, wraps)
               ELSE get_advice_for_cnn_prediction(diagnosis, confidence,
                                                  PlantType(diagnosis), resp, wraps)
       IN  /\ req' = [req EXCEPT ![r] =
                        IF advice.raised
                          THEN [@ EXCEPT !.prompt = Some(prompt),
                                         !.llm_response = Some(resp.kind),
                                         !.exception = Some([exc |-> advice.exc,
                                                             msg |-> advice.msg])]
                          ELSE [@ EXCEPT !.prompt = Some(prompt),
                                         !.llm_response = Some(resp.kind),
                                         !.advice = Some(advice.value)]]
           /\ pc' = [pc EXCEPT ![r] = IF advice.raised THEN "raised" ELSE "assemble"]
  /\ calls' = [calls EXCEPT ![r].llm = @ + 1]
  /\ UNCHANGED <<cfg, pipeline, fcall, app>>

\* the advisor asked, with anything the service can answer
AdviseRemote(r) == AdviseRemoteWith(r, LlmResponses)

\* lines 199-200: advice from the local templates
AdviseLocal(r) ==
  /\ pc[r] = "advise"
  /\ ~Remote
  /\ req' = [req EXCEPT ![r].advice =
               Some(create_basic_advice(req[r].final_diagnosis[1],
                                        req[r].final_confidence[1]))]
  /\ pc' = [pc EXCEPT ![r] = "assemble"]
  /\ UNCHANGED <<cfg, pipeline, calls, fcall, app>>

CompileResultWithClassifierFieldsOnly(q) ==
  [success |-> TRUE,
   diagnosis |-> q.cnn_result[1].disease_name,
   confidence |-> q.final_confidence[1],
   source |-> q.source[1],
   timestamp |-> "now",
   cnn_predictions |-> q.cnn_result[1],
   visual_description |-> None,
   advice |-> q.advice[1],
   image_path |-> q.image]

CompileResultFromAdvice(q) ==
  [success |-> TRUE,
   diagnosis |-> q.advice[1].diagnosis,
   confidence |-> q.advice[1].confidence,
   source |-> q.source[1],
   timestamp |-> "now",
   cnn_predictions |-> q.cnn_result[1],
   visual_description |-> q.visual_description,
   advice |-> q.advice[1],
   image_path |-> q.image]

\* lines 203-213: the result dictionary, from predict's locals q
CompileResult(q) ==
  [success |-> TRUE,
   diagnosis |-> q.final_diagnosis[1],
   confidence |-> q.final_confidence[1],
   source |-> q.source[1],
   timestamp |-> "now",
   cnn_predictions |-> q.cnn_result[1],
   visual_description |-> q.visual_description,
   advice |-> q.advice[1],
   image_path |-> q.image]

AssembleFromShared(r) ==
  /\ pc[r] = "assemble"
  /\ LET kept == IF req[1].advice # None THEN req[1] ELSE req[r]
     IN  req' = [req EXCEPT ![r].result = Some(CompileResult(kept))]
  /\ pc' = [pc EXCEPT ![r] = "done"]
  /\ UNCHANGED <<cfg, pipeline, calls, fcall, app>>

\* lines 203-218: the result is compiled and returned
Assemble(r) ==
  /\ pc[r] = "assemble"
  /\ req' = [req EXCEPT ![r].result = Some(CompileResult(req[r]))]
  /\ pc' = [pc EXCEPT ![r] = "done"]
  /\ UNCHANGED <<cfg, pipeline, calls, fcall, app>>

\* predict has returned or raised; the caller takes the outcome and the
\* slot serves the next request
Return(r) ==
  /\ pc[r] \in {"done", "raised"}
  /\ pc' = [pc EXCEPT ![r] = "idle"]
  /\ req' = [req EXCEPT ![r] = IdleReq]
  /\ calls' = [calls EXCEPT ![r] = NoCalls]
  /\ UNCHANGED <<cfg, pipeline, fcall, app>>

Next ==
  \/ Construct
  \/ \E r \in Reqs : Validate(r)
  \/ \E r \in Reqs : Classify(r)
  \/ \E r \in Reqs : Route(r)
  \/ \E r \in Reqs : RouteBlip(r)
  \/ \E r \in Reqs : AdviseRemote(r)
  \/ \E r \in Reqs : AdviseLocal(r)
  \/ \E r \in Reqs : Assemble(r)
  \/ \E r \in Reqs : Return(r)

Spec == Init /\ [][Next]_vars

(***************************************************************************)
(* The advisory stage with either adapter behind the pipeline's            *)
(* AgricultureAdvisor import                                               *)
(***************************************************************************)
Adapters == {"ollama", "hf"}

\* AgricultureAdvisor.__init__ of llm_advisor.py: service_up is whether
\* GET /api/tags answers 200 within the timeout
advisor_init_ollama(service_up) ==
  IF service_up THEN Ok(<<"advisor">>)
                ELSE Raise("ConnectionError", "Cannot connect to Ollama")

\* AgricultureAdvisor.__init__ of llm_advisor_hf.py: it stores the model id,
\* the URL and the headers and sends nothing
advisor_init_hf(service_up) == Ok(<<"advisor">>)

\* inference_pipeline.py lines 82-90: use_llm and the advisor after __init__
\* ran with the adapter's constructor
advisor_after_init(adapter, use_llm, service_up) ==
  LET made == IF adapter = "ollama" THEN advisor_init_ollama(service_up)
                                    ELSE advisor_init_hf(service_up)
  IN  use_llm /\ ~made.raised

\* _query_llm of the adapter
query_llm(adapter, resp, wraps) ==
  IF adapter = "ollama" THEN query_llm_ollama(resp, wraps)
                        ELSE query_llm_hf(resp, wraps)

\* inference_pipeline.py lines 185-200 with the adapter: held is whether
\* the pipeline holds an advisor, locals are predict's locals after routing.
\* remote: the advisor was asked; prompt: what it was asked; advice: the
\* advice block, or the exception that leaves predict
advisory_stage(adapter, held, locals, blip_result, resp, wraps) ==
  LET is_blip == StartsWithBlip(locals.source)
  IN  IF held
        THEN [remote |-> TRUE,
              prompt |-> Some(IF is_blip
                                THEN create_blip_prompt(locals.visual_description[1],
                                                        blip_result)
                                ELSE create_cnn_prompt(locals.final_diagnosis,
                                                       locals.final_confidence,
                                                       PlantType(locals.final_diagnosis))),
              advice |-> IF is_blip
                           THEN AdviceFrom(query_llm(adapter, resp, wraps),
                                           StrVisualAnalysisBased, 0, TRUE)
                           ELSE AdviceFrom(query_llm(adapter, resp, wraps),
                                           locals.final_diagnosis,
                                           locals.final_confidence, FALSE)]
        ELSE [remote |-> FALSE,
              prompt |-> None,
              advice |-> Ok(create_basic_advice(locals.final_diagnosis,
                                                locals.final_confidence))]

\* A readable image, and what the captioning model says of it
GoodImage == [exists |-> TRUE, size |-> 1, verifies |-> TRUE,
              decodes |-> TRUE, cv2reads |-> TRUE]

SampleGen ==
  [i \in 1..3 |-> [raised |-> FALSE, exc |-> "", msg |-> "",
                   value |-> IF i = 1 THEN "a leaf" ELSE "brown spots"]]

SampleBlipResult == analyze_image(SampleGen).result

\* lines 144-179 on a classifier result cnn: predict's locals after routing,
\* with the default thresholds
routed_locals(cnn, blip_available) ==
  LET use_cnn == is_prediction_reliable(cnn.confidence_metrics,
                                        DefaultConfidenceThreshold, DefaultGapThreshold)
      branch == ChooseBranch(use_cnn, [use_blip |-> blip_available,
                                       blip_analyzer |-> blip_available])
  IN  CASE branch = "cnn" -> TakeCnn(cnn)
        [] branch = "blip" -> TakeBlip(cnn, SampleBlipResult)
        [] OTHER -> TakeLowConfidence(cnn)

(***************************************************************************)
(* Concurrent calls of predict on the one pipeline of app.py: the steps of *)
(* the calls interleave freely                                             *)
(***************************************************************************)
\* One more call in flight than the sequential callers have
ConcReqs == 1..(NumReqs + 1)

\* app.py lines 17-20: PlantDiseaseInferencePipeline(use_blip=True, use_llm=True)
InitConc ==
  /\ cfg = [confidence_threshold |-> DefaultConfidenceThreshold,
            confidence_gap_threshold |-> DefaultGapThreshold,
            use_blip |-> TRUE, use_llm |-> TRUE]
  /\ pipeline = Unbuilt
  /\ pc = [r \in ConcReqs |-> "idle"]
  /\ req = [r \in ConcReqs |-> IdleReq]
  /\ calls = [r \in ConcReqs |-> NoCalls]
  /\ fcall = NoCall
  /\ app = AppIdle

\* The inputs of the concurrent calls: a readable file or a missing one; a
\* classifier output that is certain of class 0 or one that ties classes 0
\* and 1; the captions of SampleBlipResult; an advisory reply with text or
\* a timeout
ConcImages == {GoodImage, NoFile}

ConcVectors ==
  {v \in ProbVectors :
     \/ v[1] = Scale
     \/ v[1] = Scale \div 2 /\ v[2] = Scale \div 2 /\ v[3] = Scale % 2}

ConcReplies ==
  {HttpResponse("response", 200, "object", "text"),
   HttpResponse("timeout", 0, "none", "none")}

\* __init__ at import, with the catalog file complete when it is present
ConcConstruct ==
  /\ Construct
  /\ pipeline'.state = "ready" => Len(pipeline'.class_indices) = NumClasses

\* predict is entered by call r while other calls may be under way
ConcValidate(r) ==
  /\ pipeline.state = "ready"
  /\ pc[r] = "idle"
  /\ \E image \in ConcImages : ValidateStep(r, image)
  /\ UNCHANGED <<cfg, pipeline, calls, fcall, app>>

\* np.argsort as a stable sort: equal entries keep their index order
StableOrder(v, order) ==
  \A i, j \in 1..Len(order) :
    (i < j /\ v[order[i] + 1] = v[order[j] + 1]) => order[i] < order[j]

ConcClassify(r) ==
  /\ pc[r] = "classify"
  /\ \E v \in ConcVectors :
     \E order \in np_argsort(v) :
       /\ StableOrder(v, order)
       /\ ClassifyWith(r, Ok(v), order)
  /\ UNCHANGED <<cfg, pipeline, fcall, app>>

ConcRoute(r) == Route(r)

ConcRouteBlip(r) == RouteBlipWith(r, {SampleGen})

ConcAdviseRemote(r) == AdviseRemoteWith(r, ConcReplies)

ConcAdviseLocal(r) == AdviseLocal(r)

ConcAssemble(r) == Assemble(r)

ConcReturn(r) == Return(r)

NextConc ==
  \/ ConcConstruct
  \/ \E r \in ConcReqs : ConcValidate(r)
  \/ \E r \in ConcReqs : ConcClassify(r)
  \/ \E r \in ConcReqs : ConcRoute(r)
  \/ \E r \in ConcReqs : ConcRouteBlip(r)
  \/ \E r \in ConcReqs : ConcAdviseRemote(r)
  \/ \E r \in ConcReqs : ConcAdviseLocal(r)
  \/ \E r \in ConcReqs : ConcAssemble(r)
  \/ \E r \in ConcReqs : ConcReturn(r)

SpecConc == InitConc /\ [][NextConc]_vars

(***************************************************************************)
(* app.py: the /predict handler, a coroutine on the server's event loop    *)
(***************************************************************************)
\* PlantDiseaseInferencePipeline.predict(image_path) as one call on pipeline
\* p: the returned dictionary, or the exception that leaves it.  model_out,
\* order, gen, resp and wraps are what the collaborators do.
predict_value(p, image, model_out, order, gen, resp, wraps) ==
  LET valid == validate_image(image, MaxSizeMb)
      cnn == run_cnn_prediction(p.class_indices, image, model_out, order)
      use_cnn == is_prediction_reliable(cnn.value.confidence_metrics,
                                        p.confidence_threshold,
                                        p.confidence_gap_threshold)
      branch == ChooseBranch(use_cnn, p)
      enhanced == enhance_image_for_analysis(image)
      blip_result == analyze_image(gen).result
      locals == CASE branch = "cnn" -> TakeCnn(cnn.value)
                  [] branch = "blip" -> TakeBlip(cnn.value, blip_result)
                  [] OTHER -> TakeLowConfidence(cnn.value)
      advised == advisory_stage("ollama", p.use_llm /\ p.advisor, locals,
                                blip_result, resp, wraps)
  IN  IF ~valid[1] THEN Ok(FailureResult(valid[2]))
      ELSE IF cnn.raised THEN cnn
      ELSE IF branch = "blip" /\ enhanced.raised THEN enhanced
      ELSE IF advised.advice.raised THEN advised.advice
      ELSE Ok(CompileResult([cnn_result |-> Some(cnn.value),
                             final_diagnosis |-> Some(locals.final_diagnosis),
                             final_confidence |-> Some(locals.final_confidence),
                             source |-> Some(locals.source),
                             visual_description |-> locals.visual_description,
                             advice |-> Some(advised.advice.value),
                             image |-> image]))

\* The uploads: an image, a file that is no image, an image cut short
AppUploads ==
  {GoodImage,
   [GoodImage EXCEPT !.verifies = FALSE, !.decodes = FALSE, !.cv2reads = FALSE],
   [GoodImage EXCEPT !.decodes = FALSE, !.cv2reads = FALSE]}

\* What copyfileobj leaves when it fails half way
PartialFile == [GoodImage EXCEPT !.verifies = FALSE, !.decodes = FALSE, !.cv2reads = FALSE]

\* What the classifier and the advisory service do for the handler's call
AppModelOutcomes ==
  {Ok(v) : v \in {w \in ProbVectors : w[1] = Scale}}
    \cup {Raise("ResourceExhaustedError", "OOM")}

AppReply == HttpResponse("response", 200, "object", "text")

\* line 42: open(temp_path, "wb") creates or truncates the file; the server's
\* directory has no subdirectory, so a path with a directory part fails
open_wb(path) ==
  IF Len(path) > 2 THEN Raise("FileNotFoundError", "No such file or directory")
                   ELSE Ok(<<"buffer">>)

\* The file at a path, as a reader sees it
FileAt(path) == IF app.files[path] = None THEN NoFile ELSE app.files[path][1]

AwaitsAfterWrite(step) == step = "write"

\* lines 38-58: the handler's body holds no await, so after none of its
\* steps does the coroutine hand the event loop to another
AwaitsAfter(step) == FALSE

\* The event loop runs one coroutine until it awaits or returns
CanRun(r) == app.running \in {0, r}

Yield(r, step) == IF AwaitsAfter(step) THEN 0 ELSE r

\* app.py lines 17-20: the pipeline is built when the module is imported
AppConstruct == ConcConstruct

\* lines 38-43: a request arrives; temp_path is computed and the upload is
\* copied to it.  copy_ok: copyfileobj runs to its end.
AppWrite(r) ==
  /\ pipeline.state = "ready"
  /\ app.h[r].pc = "idle"
  /\ CanRun(r)
  /\ \E filename \in FileNames, upload \in AppUploads, copy_ok \in BOOLEAN :
       LET path == TempPath(filename)
           opened == open_wb(path)
           begun == [app.h[r] EXCEPT !.filename = filename, !.upload = upload,
                                     !.temp_path = path]
       IN  app' =
             IF opened.raised
               THEN [app EXCEPT !.h[r] = [begun EXCEPT !.pc = "except",
                                            !.exception = Some([exc |-> opened.exc,
                                                                msg |-> opened.msg])],
                                !.running = Yield(r, "write")]
             ELSE IF ~copy_ok
               THEN [app EXCEPT !.files[path] = Some(PartialFile),
                                !.h[r] = [begun EXCEPT !.pc = "except",
                                            !.exception = Some([exc |-> "OSError",
                                                                msg |-> "No space left on device"])],
                                !.running = Yield(r, "write")]
             ELSE [app EXCEPT !.files[path] = Some(upload),
                              !.h[r] = [begun EXCEPT !.pc = "written"],
                              !.running = Yield(r, "write")]
  /\ UNCHANGED <<cfg, pipeline, pc, req, calls, fcall>>

\* line 45: result = pipeline.predict(temp_path), on the file now at the path
AppPredict(r) ==
  /\ app.h[r].pc = "written"
  /\ CanRun(r)
  /\ \E model_out \in AppModelOutcomes :
     \E order \in SortOutcomes(FileAt(app.h[r].temp_path), model_out) :
       LET out == predict_value(pipeline, FileAt(app.h[r].temp_path), model_out,
                                order, SampleGen, AppReply, FALSE)
       IN  app' =
             IF out.raised
               THEN [app EXCEPT !.h[r] = [@ EXCEPT !.pc = "except",
                                            !.exception = Some([exc |-> out.exc,
                                                                msg |-> out.msg])],
                                !.running = Yield(r, "predict")]
               ELSE [app EXCEPT !.h[r] = [@ EXCEPT !.pc = "predicted",
                                            !.result = Some(out.value)],
                                !.running = Yield(r, "predict")]
  /\ UNCHANGED <<cfg, pipeline, pc, req, calls, fcall>>

\* lines 47-50: the temp file is removed if it exists; the result is returned
AppReturn(r) ==
  /\ app.h[r].pc = "predicted"
  /\ CanRun(r)
  /\ app' = [app EXCEPT !.files[app.h[r].temp_path] = None,
                        !.h[r] = [@ EXCEPT !.pc = "returned", !.response = app.h[r].result],
                        !.running = 0]
  /\ UNCHANGED <<cfg, pipeline, pc, req, calls, fcall>>

\* lines 52-58: except Exception: the temp file is removed if it exists and
\* a failure dictionary with str(e) is returned
AppExcept(r) ==
  /\ app.h[r].pc = "except"
  /\ CanRun(r)
  /\ app' = [app EXCEPT !.files[app.h[r].temp_path] = None,
                        !.h[r] = [@ EXCEPT !.pc = "returned",
                                    !.response = Some([success |-> FALSE,
                                                       error |-> app.h[r].exception[1].msg])],
                        !.running = 0]
  /\ UNCHANGED <<cfg, pipeline, pc, req, calls, fcall>>

\* the response is sent; the slot serves the next request
AppSent(r) ==
  /\ app.h[r].pc = "returned"
  /\ app' = [app EXCEPT !.h[r] = IdleHandler]
  /\ UNCHANGED <<cfg, pipeline, pc, req, calls, fcall>>

NextApp ==
  \/ AppConstruct
  \/ \E r \in AppReqs : AppWrite(r)
  \/ \E r \in AppReqs : AppPredict(r)
  \/ \E r \in AppReqs : AppReturn(r)
  \/ \E r \in AppReqs : AppExcept(r)
  \/ \E r \in AppReqs : AppSent(r)

SpecApp == InitConc /\ [][NextApp]_vars

(***************************************************************************)
(* The helper functions called on their own, on every input of the sets    *)
(* below; the pipeline stands still                                        *)
(***************************************************************************)
InitFn ==
  /\ cfg = [confidence_threshold |-> DefaultConfidenceThreshold,
            confidence_gap_threshold |-> DefaultGapThreshold,
            use_blip |-> TRUE, use_llm |-> TRUE]
  /\ pipeline = Unbuilt
  /\ pc = [r \in Reqs |-> "idle"]
  /\ req = [r \in Reqs |-> IdleReq]
  /\ calls = [r \in Reqs |-> NoCalls]
  /\ fcall = NoCall
  /\ app = AppIdle

\* is_prediction_reliable on any metrics and thresholds between 0 and 1
CallIsReliable ==
  /\ fcall = NoCall
  /\ \E m \in 0..Scale, g \in 0..Scale, t \in 0..ThresholdDen, mg \in 0..ThresholdDen :
       fcall' = [fn |-> "is_prediction_reliable",
                 max_confidence |-> m, confidence_gap |-> g,
                 threshold |-> t, min_gap |-> mg,
                 ret |-> is_prediction_reliable(
                           [max_confidence |-> m, confidence_gap |-> g], t, mg)]
  /\ UNCHANGED <<cfg, pipeline, pc, req, calls, app>>

\* validate_image on any file, with the default maximum size
CallValidate ==
  /\ fcall = NoCall
  /\ \E image \in ImageFiles :
       fcall' = [fn |-> "validate_image", image |-> image,
                 ret |-> validate_image(image, MaxSizeMb)]
  /\ UNCHANGED <<cfg, pipeline, pc, req, calls, app>>

\* _query_llm of either adapter on anything the service can answer
CallQueryLlm ==
  /\ fcall = NoCall
  /\ \E adapter \in {"ollama", "hf"}, resp \in LlmResponses, wraps \in BOOLEAN :
       fcall' = [fn |-> "_query_llm", adapter |-> adapter, resp |-> resp,
                 wraps |-> wraps,
                 ret |-> IF adapter = "ollama" THEN query_llm_ollama(resp, wraps)
                                               ELSE query_llm_hf(resp, wraps)]
  /\ UNCHANGED <<cfg, pipeline, pc, req, calls, app>>

\* The vectors calculate_confidence_metrics is called with: a softmax
\* output over 1 to NumClasses classes
MetricVectors ==
  UNION {{v \in [1..n -> 0..Scale] : SeqSum(v) = Scale} : n \in 1..NumClasses}

\* calculate_confidence_metrics on any such vector, with any top_k from 1 to
\* one more than the number of classes
CallMetrics ==
  /\ fcall = NoCall
  /\ \E v \in MetricVectors, top_k \in 1..(NumClasses + 1) :
     \E order \in np_argsort(v) :
       fcall' = [fn |-> "calculate_confidence_metrics",
                 predictions |-> v, top_k |-> top_k,
                 ret |-> calculate_confidence_metrics(v, top_k, order)]
  /\ UNCHANGED <<cfg, pipeline, pc, req, calls, app>>

\* The strings _create_combined_description is called with: the captions
\* and the empty string
CaptionTexts == Captions \cup {""}

\* _create_combined_description on any three of them
CallCombine ==
  /\ fcall = NoCall
  /\ \E general \in CaptionTexts, symptoms \in CaptionTexts, features \in CaptionTexts :
       fcall' = [fn |-> "_create_combined_description",
                 general |-> general, symptoms |-> symptoms, features |-> features,
                 ret |-> create_combined_description(general, symptoms, features)]
  /\ UNCHANGED <<cfg, pipeline, pc, req, calls, app>>

\* The advisory stage of one request under each adapter: the same
\* constructor arguments, the same service (up or down when the pipeline is
\* built, resp to the request) and the same classifier output v
CallAdvisoryStage ==
  /\ fcall = NoCall
  /\ \E use_llm \in BOOLEAN, service_up \in BOOLEAN, blip_available \in BOOLEAN,
        v \in ConcVectors, resp \in LlmResponses, wraps \in BOOLEAN :
     \E order \in {o \in np_argsort(v) : StableOrder(v, o)} :
       LET cnn == run_cnn_prediction(Catalog(NumClasses), GoodImage, Ok(v), order).value
           locals == routed_locals(cnn, blip_available)
       IN  fcall' = [fn |-> "advisory_stage",
                     use_llm |-> use_llm, service_up |-> service_up,
                     predictions |-> v, resp |-> resp, wraps |-> wraps,
                     source |-> locals.source,
                     ret |-> [a \in Adapters |->
                                advisory_stage(a, advisor_after_init(a, use_llm, service_up),
                                               locals, SampleBlipResult, resp, wraps)]]
  /\ UNCHANGED <<cfg, pipeline, pc, req, calls, app>>

\* the caller has the value; the next call can be made
FnReturn ==
  /\ fcall # NoCall
  /\ fcall' = NoCall
  /\ UNCHANGED <<cfg, pipeline, pc, req, calls, app>>

NextFn ==
  \/ FnReturn
  \/ CallIsReliable
  \/ CallValidate
  \/ CallQueryLlm
  \/ CallMetrics
  \/ CallCombine
  \/ CallAdvisoryStage

SpecFn == InitFn /\ [][NextFn]_vars

(***************************************************************************)
(* Properties                                                              *)
(***************************************************************************)
\* The file passes validate_image's three checks
PassesValidation(f) == f.exists /\ f.size <= MaxBytes /\ f.verifies

\* predict has gone through its routing for request r
Routed(r) == req[r].source # None

\* The largest entry of a vector
MaxOf(v) == CHOOSE m \in 0..Scale : (\E j \in 1..Len(v) : v[j] = m)
                                    /\ (\A j \in 1..Len(v) : v[j] <= m)

\* C1: predict never raises: no request ever ends with an exception
\* leaving predict (every failure after validation becomes a result with
\* success = false).
C1_PredictNeverRaises == \A r \in Reqs : pc[r] # "raised"

\* C2: is_prediction_reliable returns true exactly when max_confidence >=
\* threshold and confidence_gap >= min_gap (both; equality counts).
C2_ReliableIffBoth ==
  fcall.fn = "is_prediction_reliable" =>
    (fcall.ret <=>
       (/\ fcall.max_confidence * ThresholdDen >= fcall.threshold * Scale
        /\ fcall.confidence_gap * ThresholdDen >= fcall.min_gap * Scale))

\* C2 witness: confidence at or above the threshold, gap below min_gap,
\* and the prediction is judged not reliable
C2_Witness ==
  /\ fcall.fn = "is_prediction_reliable"
  /\ fcall.max_confidence * ThresholdDen >= fcall.threshold * Scale
  /\ fcall.max_confidence = Scale - 1
  /\ fcall.confidence_gap * ThresholdDen < fcall.min_gap * Scale
  /\ fcall.ret = FALSE

\* C3: once the policy has judged a request reliable, the request takes the
\* classifier route: source "CNN Classification", diagnosis the formatted
\* label of the top-1 class, no visual description, and neither the image
\* enhancement nor the captioning model is ever invoked for it, whether or
\* not captioning is enabled.
C3_ReliableTakesClassifierRoute ==
  \A r \in Reqs :
    req[r].use_cnn = Some(TRUE) =>
      /\ calls[r].enhance = 0 /\ calls[r].blip = 0 /\ calls[r].generate = 0
      /\ req[r].blip_result = None
      /\ Routed(r)
      /\ req[r].source = Some(SourceCnn)
      /\ req[r].final_diagnosis =
           Some(format_disease_name(
                  pipeline.class_indices[
                    np_argmax(req[r].cnn_result[1].raw_predictions) + 1]))
      /\ req[r].visual_description = None
      /\ req[r].result # None =>
           /\ req[r].result[1].success
           /\ req[r].result[1].source = SourceCnn
           /\ Some(req[r].result[1].diagnosis) = req[r].final_diagnosis
           /\ req[r].result[1].visual_description = None

\* C3 witness: a reliable request has returned its result on a pipeline
\* whose captioning fallback is available
C3_Witness ==
  \E r \in Reqs :
    /\ pc[r] = "done"
    /\ req[r].use_cnn = Some(TRUE)
    /\ pipeline.use_blip /\ pipeline.blip_analyzer
    /\ req[r].result[1].success

C5_UnreliableWithoutCaptioningIsLowConfidence ==
  \A r \in Reqs :
    (req[r].use_cnn = Some(FALSE) /\ ~(pipeline.use_blip /\ pipeline.blip_analyzer)) =>
      /\ Routed(r)
      /\ req[r].source = Some(SourceLow)
      /\ req[r].final_diagnosis =
           Some(req[r].cnn_result[1].disease_name \o StrLowConfidence)
      /\ req[r].final_confidence = Some(MaxOf(req[r].cnn_result[1].raw_predictions))
      /\ req[r].visual_description = None
      /\ calls[r].blip = 0 /\ calls[r].enhance = 0
      /\ req[r].result # None =>
           /\ req[r].result[1].success
           /\ req[r].result[1].source = SourceLow
           /\ req[r].result[1].diagnosis =
                req[r].cnn_result[1].disease_name \o StrLowConfidence
           /\ req[r].result[1].confidence = MaxOf(req[r].cnn_result[1].raw_predictions)
           /\ req[r].result[1].visual_description = None

\* C5 witness: a low-confidence result returned by a pipeline that was
\* configured with captioning but whose captioning model failed to load
C5_Witness ==
  \E r \in Reqs :
    /\ pc[r] = "done"
    /\ cfg.use_blip /\ ~pipeline.use_blip
    /\ req[r].use_cnn = Some(FALSE)
    /\ req[r].result[1].source = SourceLow

\* C6: a request whose image fails validation ends at once in a result
\* with success = false and a validation message, and no collaborator
\* (classifier, image enhancement, captioning model, advisor) is invoked
\* for it.
C6_InvalidImageEndsWithoutModels ==
  \A r \in Reqs :
    (pc[r] # "idle" /\ ~PassesValidation(req[r].image)) =>
      /\ pc[r] = "done"
      /\ req[r].result # None
      /\ req[r].result[1].success = FALSE
      /\ req[r].result[1].error.text \in
           {MsgNotExist.text, MsgTooLarge(0).text, MsgInvalid("").text}
      /\ calls[r] = NoCalls
      /\ req[r].cnn_result = None /\ req[r].blip_result = None /\ req[r].advice = None

\* C6 witness: a request for an oversized file has ended
C6_Witness ==
  \E r \in Reqs :
    /\ pc[r] = "done"
    /\ req[r].image.exists /\ req[r].image.size > MaxBytes
    /\ req[r].result[1].success = FALSE

\* C7: validate_image checks existence, then size, then decodability and
\* reports the first defect, each with its own reason; a file of exactly
\* the maximum size is not oversized; a file passing the three checks is
\* valid.
C7_ValidateOrderAndBoundary ==
  fcall.fn = "validate_image" =>
    LET f == fcall.image
        ok == fcall.ret[1]
        text == fcall.ret[2].text
    IN  /\ ~f.exists => (~ok /\ text = "File does not exist")
        /\ (f.exists /\ f.size > MaxSizeMb * BytesPerMb) =>
             (~ok /\ text = "File too large (%.2f MB > %d MB)")
        /\ (f.exists /\ f.size <= MaxSizeMb * BytesPerMb /\ ~f.verifies) =>
             (~ok /\ text = "Invalid image file: %s")
        /\ (f.exists /\ f.size <= MaxSizeMb * BytesPerMb /\ f.verifies) =>
             (ok /\ text = "Valid image")
        /\ Cardinality({MsgNotExist.text, MsgTooLarge(0).text,
                        MsgInvalid("").text, MsgValid.text}) = 4

\* C7 witness: a verifying file of exactly the maximum size is valid
C7_Witness ==
  /\ fcall.fn = "validate_image"
  /\ fcall.image.exists /\ fcall.image.size = MaxSizeMb * BytesPerMb
  /\ fcall.image.verifies
  /\ fcall.ret[1] = TRUE

\* C8: predict returns success = false instead of raising for every image,
\* also for one that passes validate_image's verification and then cannot
\* be decoded: such a request never ends with an exception leaving predict.
C8_UndecodableImageNeverRaises ==
  \A r \in Reqs :
    (PassesValidation(req[r].image)
       /\ (~req[r].image.decodes \/ ~req[r].image.cv2reads)) =>
      pc[r] # "raised"

\* C9: once classification has succeeded, no failure of the captioning
\* stage (enhancement, caption generation) or of the advisory stage fails
\* the request: it never ends with an exception leaving predict.
C9_OptionalStageNeverFailsRequest ==
  \A r \in Reqs : req[r].cnn_result # None => pc[r] # "raised"

\* C10: _query_llm never raises and always returns a string, whatever the
\* service does (timeout, unreachable, loading, malformed or non-JSON body).
C10_QueryNeverRaises ==
  fcall.fn = "_query_llm" =>
    /\ ~fcall.ret.raised
    /\ fcall.ret.value # None

\* The constructor's log holds the entry e
Logged(e) == \E i \in 1..Len(pipeline.log) : pipeline.log[i] = e

\* The positions of the log at which one of the entries of es stands
LogEntries(es) == {i \in 1..Len(pipeline.log) : pipeline.log[i] \in es}

\* The advisory service was asked for and found unreachable at construction
UnreachableAtConstruction == cfg.use_llm /\ Logged("liveness:unreachable")

\* The advisory service refused the connection of request r's query
UnreachableAtRequest(r) ==
  req[r].llm_response = Some("connection_error")

\* C11: whenever the advisory service is unreachable, at construction or
\* at the time of a later request, a request that reaches its advice stage
\* gets advice of the local generator (source "Basic Advisory", non-empty
\* full_advice), and its result has success = true.
C11_UnreachableServiceGivesLocalAdvice ==
  \A r \in Reqs :
    (pc[r] \in {"assemble", "done"} /\ req[r].cnn_result # None
       /\ (UnreachableAtConstruction \/ UnreachableAtRequest(r))) =>
      /\ req[r].advice # None
      /\ req[r].advice[1].source = "Basic Advisory"
      /\ req[r].advice[1].full_advice # <<>>
      /\ pc[r] = "done" => req[r].result[1].success

\* C12: construction makes at most one liveness check of the advisory
\* service and at most one load of the captioning model, exactly one of
\* each when the stage is asked for and construction completes; an
\* unreachable service or a failed load leaves a built pipeline with the
\* stage disabled (flag false, no object held), and the requests of a
\* pipeline built with the service unreachable never call the advisor and
\* get the local generator's advice.
C12_OptionalStageFailureDisablesStage ==
  /\ Cardinality(LogEntries({"liveness:ok", "liveness:unreachable"})) <= 1
  /\ Cardinality(LogEntries({"blip:loaded", "blip:failed"})) <= 1
  /\ (pipeline.state = "ready" /\ cfg.use_llm) =>
       Cardinality(LogEntries({"liveness:ok", "liveness:unreachable"})) = 1
  /\ (pipeline.state = "ready" /\ cfg.use_blip) =>
       Cardinality(LogEntries({"blip:loaded", "blip:failed"})) = 1
  /\ Logged("liveness:unreachable") =>
       /\ pipeline.state = "ready"
       /\ ~pipeline.use_llm /\ ~pipeline.advisor
       /\ \A r \in Reqs :
            /\ calls[r].llm = 0
            /\ req[r].advice # None => req[r].advice[1].source = "Basic Advisory"
  /\ Logged("blip:failed") =>
       /\ pipeline.state = "ready"
       /\ ~pipeline.use_blip /\ ~pipeline.blip_analyzer
       /\ \A r \in Reqs : calls[r].blip = 0

\* C12 witness: a pipeline built with both the captioning model failing to
\* load and the advisory service unreachable has served a request
C12_Witness ==
  /\ Logged("blip:failed") /\ Logged("liveness:unreachable")
  /\ \E r \in Reqs : pc[r] = "done" /\ req[r].result[1].success

\* C13: when the classifier model file or the class catalog is missing,
\* construction fails, before any load of the captioning model and any
\* liveness check; no request is ever started on the failed pipeline, so
\* the failure never shows as a result of predict.
C13_MissingModelOrCatalogFailsConstruction ==
  (Logged("model:missing") \/ Logged("catalog:missing")) =>
    /\ pipeline.state = "failed"
    /\ pipeline.error # ""
    /\ LogEntries({"blip:loaded", "blip:failed",
                   "liveness:ok", "liveness:unreachable"}) = {}
    /\ ~pipeline.cnn_model /\ ~pipeline.blip_analyzer /\ ~pipeline.advisor
    /\ \A r \in Reqs : pc[r] = "idle" /\ req[r] = IdleReq /\ calls[r] = NoCalls

\* C13 witness: construction with both optional stages asked for has failed
\* on a missing catalog after the model was loaded
C13_Witness ==
  /\ cfg.use_blip /\ cfg.use_llm
  /\ pipeline.state = "failed"
  /\ pipeline.log = <<"model:loaded", "catalog:missing">>

\* The position of the segment label in the text t, or 0 when t lacks it
SegmentAt(t, label) ==
  IF \E i \in 1..Len(t) : t[i] = label
    THEN CHOOSE i \in 1..Len(t) : t[i] = label
    ELSE 0

\* The caption c stands behind the segment label in the text t
Appended(t, label, c) ==
  /\ SegmentAt(t, label) # 0
  /\ SegmentAt(t, label) < Len(t)
  /\ t[SegmentAt(t, label) + 1] = c

\* How often the segment c occurs in the text t
Occurrences(t, c) == Cardinality({i \in 1..Len(t) : t[i] = c})

\* The combined description keeps the order general, symptoms, features
InCaptionOrder(t) ==
  /\ SegmentAt(t, "Visual Analysis: ") = 1
  /\ SegmentAt(t, "Disease Symptoms: ") # 0 => SegmentAt(t, "Disease Symptoms: ") = 4
  /\ SegmentAt(t, "Additional Features: ") # 0 =>
       SegmentAt(t, "Additional Features: ") =
         IF SegmentAt(t, "Disease Symptoms: ") # 0 THEN 7 ELSE 4

\* C14 (as claimed): the combined description starts with the general
\* caption; the symptom caption is appended exactly when it differs from
\* the general caption, the feature caption exactly when it differs from
\* both; the order is general, symptoms, features.
C14_AppendedIffDistinct ==
  fcall.fn = "_create_combined_description" =>
    /\ Appended(fcall.ret, "Visual Analysis: ", fcall.general)
    /\ InCaptionOrder(fcall.ret)
    /\ Appended(fcall.ret, "Disease Symptoms: ", fcall.symptoms)
         <=> fcall.symptoms # fcall.general
    /\ Appended(fcall.ret, "Additional Features: ", fcall.features)
         <=> (fcall.features # fcall.general /\ fcall.features # fcall.symptoms)

\* C14 (amended): the combined description starts with the general
\* caption; the symptom caption is appended exactly when it is non-empty
\* and differs from the general caption, the feature caption exactly when
\* it is non-empty and differs from both; the order is general, symptoms,
\* features; for general = symptoms = "a leaf" and features = "brown spots"
\* each of the two captions occurs once.
C14_AppendedIffNonEmptyAndDistinct ==
  fcall.fn = "_create_combined_description" =>
    /\ Appended(fcall.ret, "Visual Analysis: ", fcall.general)
    /\ InCaptionOrder(fcall.ret)
    /\ Appended(fcall.ret, "Disease Symptoms: ", fcall.symptoms)
         <=> (fcall.symptoms # "" /\ fcall.symptoms # fcall.general)
    /\ Appended(fcall.ret, "Additional Features: ", fcall.features)
         <=> (/\ fcall.features # ""
              /\ fcall.features # fcall.general
              /\ fcall.features # fcall.symptoms)
    /\ (fcall.general = "a leaf" /\ fcall.symptoms = "a leaf"
          /\ fcall.features = "brown spots") =>
         /\ Occurrences(fcall.ret, "a leaf") = 1
         /\ Occurrences(fcall.ret, "brown spots") = 1

\* C14 witness: the duplicate symptom caption was dropped and the feature
\* caption appended
C14_Witness ==
  /\ fcall.fn = "_create_combined_description"
  /\ fcall.general = "a leaf" /\ fcall.symptoms = "a leaf"
  /\ fcall.features = "brown spots"
  /\ fcall.ret = <<"Visual Analysis: ", "a leaf", ". ",
                   "Additional Features: ", "brown spots", ".">>

\* The two largest entries of a vector of two or more entries
Top1(v) == MaxOf(v)
Top2(v) ==
  CHOOSE m \in 0..Scale :
    \E i \in 1..Len(v) :
      /\ v[i] = Top1(v)
      /\ \E j \in 1..Len(v) : j # i /\ v[j] = m
      /\ \A j \in 1..Len(v) : j # i => v[j] <= m

Min(a, b) == IF a <= b THEN a ELSE b

\* C15: the indices returned are the top_k highest-probability ones, in
\* descending order of probability, and of two entries of equal
\* probability the one with the lower index is ranked first.
C15_DescendingLowerIndexFirstOnTies ==
  fcall.fn = "calculate_confidence_metrics" =>
    LET v == fcall.predictions
        idx == fcall.ret.top_k_indices
    IN  /\ \A i, j \in 1..Len(idx) :
             i < j =>
               \/ v[idx[i] + 1] > v[idx[j] + 1]
               \/ (v[idx[i] + 1] = v[idx[j] + 1] /\ idx[i] < idx[j])
        /\ \A c \in 0..(Len(v) - 1) :
             (\A i \in 1..Len(idx) : idx[i] # c) =>
               \A i \in 1..Len(idx) : v[c + 1] <= v[idx[i] + 1]

\* C16: for every vector and every top_k >= 1, top_k_indices and
\* top_k_confidences have the same length min(top_k, number of classes),
\* each confidence is the vector's entry at its index, max_confidence is
\* top_k_confidences[0] and the maximum of the vector, and with two or more
\* entries returned confidence_gap is top-1 minus top-2 and not negative.
C16_MetricsShape ==
  fcall.fn = "calculate_confidence_metrics" =>
    LET v == fcall.predictions
        idx == fcall.ret.top_k_indices
        conf == fcall.ret.top_k_confidences
    IN  /\ Len(idx) = Len(conf)
        /\ Len(idx) = Min(fcall.top_k, Len(v))
        /\ \A i \in 1..Len(idx) : conf[i] = v[idx[i] + 1]
        /\ fcall.ret.max_confidence = conf[1]
        /\ fcall.ret.max_confidence = Top1(v)
        /\ Len(idx) >= 2 =>
             /\ fcall.ret.confidence_gap = conf[1] - conf[2]
             /\ fcall.ret.confidence_gap = Top1(v) - Top2(v)
             /\ fcall.ret.confidence_gap >= 0

\* C16 witness: more entries asked for than there are classes, over a
\* vector of three classes whose two largest entries are equal
C16_Witness ==
  /\ fcall.fn = "calculate_confidence_metrics"
  /\ Len(fcall.predictions) = 3
  /\ fcall.top_k > 3
  /\ Len(fcall.ret.top_k_indices) = 3
  /\ fcall.ret.confidence_gap = 0
  /\ fcall.ret.max_confidence > 0

\* C17: for a one-class vector the gap is 1.0 and the prediction is
\* reliable for every threshold and min_gap up to 1.0; the gap is the 1.0
\* default only when there are fewer than two classes: over two or more
\* classes it is top-1 minus top-2 whatever top_k is.
C17_GapDefaultOnlyForOneClass ==
  fcall.fn = "calculate_confidence_metrics" =>
    /\ Len(fcall.predictions) < 2 =>
         /\ fcall.ret.confidence_gap = Scale
         /\ \A t \in 0..ThresholdDen, g \in 0..ThresholdDen :
              is_prediction_reliable(fcall.ret, t, g)
    /\ Len(fcall.predictions) >= 2 =>
         fcall.ret.confidence_gap = Top1(fcall.predictions) - Top2(fcall.predictions)

\* The fields of a successful result
SuccessFields ==
  {"success", "diagnosis", "confidence", "source", "timestamp",
   "cnn_predictions", "visual_description", "advice", "image_path"}

\* C18: every result returned by predict is a failure (success = false,
\* an error message, no other field) or a success (success = true and
\* the eight other fields), with source one of the three route names and
\* visual_description non-null exactly when the captioning model was run
\* for the request.
C18_ResultShapes ==
  \A r \in Reqs :
    req[r].result # None =>
      LET res == req[r].result[1]
      IN  IF res.success
            THEN /\ DOMAIN res = SuccessFields
                 /\ res.source \in {SourceCnn, SourceBlip, SourceLow}
                 /\ res.visual_description # None <=> calls[r].blip > 0
            ELSE /\ DOMAIN res = {"success", "error"}
                 /\ res.error.text # ""

\* C18 witness: a successful result whose captioning run failed part of
\* the way (the description is the captioner's error placeholder)
C18_Witness ==
  \E r \in Reqs :
    /\ pc[r] = "done"
    /\ req[r].result[1].success
    /\ calls[r].blip = 1 /\ calls[r].generate = 2
    /\ req[r].result[1].visual_description = Some(<<"Error: ", "generate failed">>)

\* The text d holds "healthy" in any mix of cases
IndicatesHealthy(d) ==
  \E i \in 1..Len(d) :
    /\ i + Len(StrHealthy) - 1 <= Len(d)
    /\ \A j \in 1..Len(StrHealthy) : CharLower(d[i + j - 1]) = StrHealthy[j]

\* p is the part of d before its first " - "
IsPartBeforeSeparator(p, d) ==
  /\ Len(p) + Len(StrSeparator) <= Len(d)
  /\ SubSeq(d, 1, Len(p)) = p
  /\ SubSeq(d, Len(p) + 1, Len(p) + Len(StrSeparator)) = StrSeparator
  /\ \A i \in 1..Len(p) : ~OccursAt(d, StrSeparator, i)

\* C19: the prompt built for the advisor matches the route.  On the
\* visual-fallback route it is the visual-analysis template, built from the
\* combined description and the symptom and feature captions.  On the two
\* classifier routes it is the classifier template for the diagnosis and
\* confidence, its healthy variant exactly when the diagnosis contains
\* "healthy" in any case, with the plant type the part of the diagnosis
\* before " - ", or "plant" when the diagnosis has no " - ".
C19_PromptMatchesRoute ==
  \A r \in Reqs :
    req[r].prompt # None =>
      LET prompt == req[r].prompt[1]
          d == req[r].final_diagnosis[1]
      IN  /\ Remote
          /\ req[r].source = Some(SourceBlip) =>
               /\ prompt.template = "blip"
               /\ prompt.visual_description = req[r].blip_result[1].combined_description
               /\ prompt.disease_symptoms = req[r].blip_result[1].disease_symptoms
               /\ prompt.visual_features = req[r].blip_result[1].visual_features
          /\ req[r].source \in {Some(SourceCnn), Some(SourceLow)} =>
               /\ prompt.template \in {"cnn_healthy", "cnn_disease"}
               /\ prompt.template = "cnn_healthy" <=> IndicatesHealthy(d)
               /\ prompt.disease_name = d
               /\ prompt.confidence = req[r].final_confidence[1]
               /\ IF \E i \in 1..Len(d) : OccursAt(d, StrSeparator, i)
                    THEN IsPartBeforeSeparator(prompt.plant_type, d)
                    ELSE prompt.plant_type = StrPlant

\* C19 witness: on the low-confidence route, a diagnosis without a
\* separator ("Corn (Low Confidence)") was sent with the placeholder
\* plant type
C19_Witness ==
  \E r \in Reqs :
    /\ req[r].prompt # None
    /\ req[r].source = Some(SourceLow)
    /\ req[r].prompt[1].template = "cnn_disease"
    /\ req[r].prompt[1].plant_type = StrPlant
    /\ Len(req[r].final_diagnosis[1]) > Len(StrLowConfidence)

\* The fields of an advice block of the remote path (_parse_llm_response)
AdviceFields ==
  {"diagnosis", "confidence", "source", "full_advice", "summary", "timestamp"}

\* C20: without an advisory service the advice is the local generator's:
\* it has the fields of a remote advice block, carries the request's
\* diagnosis and confidence, and its text is the healthy template exactly
\* when the diagnosis contains "healthy" in any case and the disease
\* template otherwise, whatever the route and the confidence.
C20_LocalAdviceKeyedOnHealthyOnly ==
  \A r \in Reqs :
    (req[r].advice # None /\ ~Remote) =>
      LET advice == req[r].advice[1]
          d == req[r].final_diagnosis[1]
      IN  /\ DOMAIN advice = AdviceFields
          /\ DOMAIN advice = DOMAIN parse_llm_response(LlmText, d, 0, FALSE)
          /\ advice.source = "Basic Advisory"
          /\ advice.diagnosis = d
          /\ advice.confidence = req[r].final_confidence[1]
          /\ calls[r].llm = 0
          /\ advice.full_advice[1] \in
               {"Your plant appears to be HEALTHY (Confidence: ", "Disease Detected: "}
          /\ advice.full_advice[1] = "Your plant appears to be HEALTHY (Confidence: "
               <=> IndicatesHealthy(d)

\* C20 witness: on the low-confidence route the diagnosis
\* "Tomato - Healthy (Low Confidence)" got the local healthy template
C20_Witness ==
  \E r \in Reqs :
    /\ req[r].advice # None /\ ~Remote
    /\ req[r].source = Some(SourceLow)
    /\ req[r].final_confidence[1] < Scale
    /\ req[r].advice[1].full_advice[1] = "Your plant appears to be HEALTHY (Confidence: "

\* C21: the constructor's knobs act as configured.  With captioning
\* disabled the captioning model is never loaded and no request enhances
\* an image or runs the captioner; with the advisory path disabled the
\* service is never contacted, at construction or by a request, and every
\* successful result carries the local generator's advice; the thresholds
\* the routing uses are the constructor's, whose defaults are 0.7 and 0.2.
C21_KnobsActAsConfigured ==
  /\ ~cfg.use_blip =>
       /\ LogEntries({"blip:loaded", "blip:failed"}) = {}
       /\ ~pipeline.use_blip /\ ~pipeline.blip_analyzer
       /\ \A r \in Reqs :
            calls[r].enhance = 0 /\ calls[r].blip = 0 /\ calls[r].generate = 0
  /\ ~cfg.use_llm =>
       /\ LogEntries({"liveness:ok", "liveness:unreachable"}) = {}
       /\ ~pipeline.use_llm /\ ~pipeline.advisor
       /\ \A r \in Reqs :
            /\ calls[r].llm = 0
            /\ (req[r].result # None /\ req[r].result[1].success) =>
                 req[r].result[1].advice.source = "Basic Advisory"
  /\ pipeline.state = "ready" =>
       /\ pipeline.confidence_threshold = cfg.confidence_threshold
       /\ pipeline.confidence_gap_threshold = cfg.confidence_gap_threshold
  /\ \A r \in Reqs :
       req[r].use_cnn # None =>
         LET metrics == req[r].cnn_result[1].confidence_metrics
         IN  req[r].use_cnn =
               Some(/\ metrics.max_confidence * ThresholdDen
                         >= cfg.confidence_threshold * Scale
                    /\ metrics.confidence_gap * ThresholdDen
                         >= cfg.confidence_gap_threshold * Scale)
  /\ DefaultConfidenceThreshold * 10 = 7 * ThresholdDen
  /\ DefaultGapThreshold * 10 = 2 * ThresholdDen

\* C21 witness: a pipeline built without captioning and without advisory
\* and with a confidence threshold of 0.5 has returned a result on the
\* classifier route for an output the default threshold would have refused
C21_Witness ==
  /\ ~cfg.use_blip /\ ~cfg.use_llm
  /\ cfg.confidence_threshold < DefaultConfidenceThreshold
  /\ \E r \in Reqs :
       /\ pc[r] = "done"
       /\ req[r].use_cnn = Some(TRUE)
       /\ req[r].result[1].success
       /\ req[r].result[1].confidence * ThresholdDen < DefaultConfidenceThreshold * Scale

\* An external call of request r (the classifier, the advisory service)
\* failed and the failure left predict as an exception
ExternalFailureRaised(r) ==
  /\ pc[r] = "raised"
  /\ req[r].exception[1].exc \in {"ResourceExhaustedError", "AttributeError", "ValueError"}

\* C22: no external call is retried: within one request the classifier is
\* invoked at most once, the advisory service is asked at most once, the
\* captioner is run at most once with each of its three generations
\* attempted at most once; and a failed call ends in the fallback text or
\* in a failed result, never in an exception.
C22_SingleAttemptAndHandledFailure ==
  \A r \in Reqs :
    /\ calls[r].cnn <= 1
    /\ calls[r].llm <= 1
    /\ calls[r].blip <= 1
    /\ calls[r].generate <= 3
    /\ ~ExternalFailureRaised(r)

\* What call r holds, and what a lone call would hold in its place: its
\* locals after routing come from its own classifier result and the
\* pipeline's thresholds and flags, its prompt from its own locals, its
\* advice names its own diagnosis, and its result is compiled from its own
\* locals and its own image
HoldsOwnData(r) ==
  LET q == req[r]
  IN  /\ q.source # None =>
           LET cnn == q.cnn_result[1]
               branch == ChooseBranch(UseCnn(r), pipeline)
               locals == CASE branch = "cnn" -> TakeCnn(cnn)
                           [] branch = "blip" -> TakeBlip(cnn, q.blip_result[1])
                           [] OTHER -> TakeLowConfidence(cnn)
           IN  /\ q.final_diagnosis = Some(locals.final_diagnosis)
               /\ q.final_confidence = Some(locals.final_confidence)
               /\ q.source = Some(locals.source)
               /\ q.visual_description = locals.visual_description
      /\ q.prompt # None =>
           q.prompt[1] =
             IF StartsWithBlip(q.source[1])
               THEN create_blip_prompt(q.visual_description[1], q.blip_result[1])
               ELSE create_cnn_prompt(q.final_diagnosis[1], q.final_confidence[1],
                                      PlantType(q.final_diagnosis[1]))
      /\ q.advice # None =>
           q.advice[1].diagnosis \in {q.final_diagnosis[1], StrVisualAnalysisBased}
      /\ q.result # None =>
           q.result[1] = IF q.result[1].success
                           THEN CompileResult(q)
                           ELSE FailureResult(validate_image(q.image, MaxSizeMb)[2])

\* The slot of call r
Slot(r) == <<pc[r], req[r], calls[r]>>

\* C23: no request changes what the pipeline owns (thresholds, flags,
\* catalog, model handles: the built pipeline stays as it is), and under any
\* interleaving of concurrent requests each request sees only its own data:
\* a step of one request leaves every other request's locals alone, and what
\* a request holds, up to its result, is what it would hold if run alone.
C23_RequestsIsolated ==
  /\ [](\A r \in DOMAIN pc : HoldsOwnData(r))
  /\ [][/\ pipeline.state = "ready" => pipeline' = pipeline
        /\ \A r, q \in DOMAIN pc :
             (r # q /\ Slot(r)' # Slot(r)) => Slot(q)' = Slot(q)]_vars

\* C23 witness: two requests are under way at once with different classifier
\* results, one of them already holding its result while the other is still
\* between classification and assembly
C23_Witness ==
  \E r, q \in DOMAIN pc :
    /\ r # q
    /\ pc[r] = "done" /\ req[r].result[1].success
    /\ pc[q] \in {"route", "advise", "assemble"}
    /\ req[q].cnn_result # req[r].cnn_result

\* C24: the orchestrator behaves the same with the local-daemon adapter and
\* with the hosted-API adapter: for the same constructor arguments, the same
\* service conditions (up or down at construction, any reply to the request)
\* and the same classifier output, both take the same decision between the
\* advisor and the local generator, send the same prompt, and either both
\* raise or both give an advice block with the same fields and the same
\* diagnosis, confidence and source.
C24_AdapterIndependent ==
  fcall.fn = "advisory_stage" =>
    LET o == fcall.ret["ollama"]
        h == fcall.ret["hf"]
    IN  /\ o.remote = h.remote
        /\ o.prompt = h.prompt
        /\ o.advice.raised = h.advice.raised
        /\ ~o.advice.raised =>
             /\ DOMAIN o.advice.value = DOMAIN h.advice.value
             /\ o.advice.value.diagnosis = h.advice.value.diagnosis
             /\ o.advice.value.confidence = h.advice.value.confidence
             /\ o.advice.value.source = h.advice.value.source


\* C25: the stages of a request occur in the order validate, classify and
\* metrics, policy decision, optional captioning, advisory, assemble: the
\* classifier runs only on a validated image, the decision is taken only on
\* a classifier result, enhancement and captioning run only after a
\* decision "not reliable", advice is produced only after routing (with the
\* captioning result at hand on the visual route), and a request that
\* reaches assembly has advice from exactly one source, the advisor asked
\* once or the local generator.
C25_StagesInOrder ==
  \A r \in Reqs :
    /\ calls[r].cnn > 0 => PassesValidation(req[r].image)
    /\ req[r].cnn_result # None => calls[r].cnn = 1
    /\ req[r].use_cnn # None => req[r].cnn_result # None
    /\ (calls[r].enhance > 0 \/ calls[r].blip > 0 \/ calls[r].generate > 0) =>
         req[r].use_cnn = Some(FALSE)
    /\ calls[r].generate > 0 => (calls[r].enhance = 1 /\ calls[r].blip = 1)
    /\ (calls[r].llm > 0 \/ req[r].advice # None) =>
         /\ Routed(r)
         /\ req[r].source = Some(SourceBlip) => req[r].blip_result # None
    /\ (pc[r] \in {"assemble", "done"} /\ req[r].cnn_result # None) =>
         /\ req[r].advice # None
         /\ \/ /\ calls[r].llm = 1
               /\ req[r].advice[1].source \in {"CNN Classification", "Visual Analysis (BLIP)"}
            \/ /\ calls[r].llm = 0
               /\ req[r].advice[1].source = "Basic Advisory"
    /\ req[r].result # None =>
         (req[r].result[1].success <=> req[r].advice # None)

\* C25 witness: a request has gone through every stage: classifier,
\* captioner with its three generations, advisor, result
C25_Witness ==
  \E r \in Reqs :
    /\ pc[r] = "done"
    /\ calls[r] = [cnn |-> 1, enhance |-> 1, blip |-> 1, generate |-> 3, llm |-> 1]
    /\ req[r].result[1].success

\* C26: in every successful result the top-1 is consistent: the result's
\* confidence is max_confidence, and the class the diagnosis label was
\* taken from (argmax) is the class of top_k_indices[0] and of
\* top_3_predictions[0], also when classes tie for the maximum.
C26_TopOneConsistent ==
  \A r \in Reqs :
    (req[r].result # None /\ req[r].result[1].success) =>
      LET cnn == req[r].result[1].cnn_predictions
      IN  /\ req[r].result[1].confidence = cnn.confidence_metrics.max_confidence
          /\ cnn.confidence_metrics.top_k_indices[1] = np_argmax(cnn.raw_predictions)
          /\ cnn.top_3_predictions[1].disease = cnn.disease_name

\* C27: in every successful result the advice block carries the result's
\* diagnosis and confidence, on every route and for remote and local
\* advice alike.
C27_AdviceAgreesWithResult ==
  \A r \in Reqs :
    (req[r].result # None /\ req[r].result[1].success) =>
      /\ req[r].result[1].advice.diagnosis = req[r].result[1].diagnosis
      /\ req[r].result[1].advice.confidence = req[r].result[1].confidence

\* What the routing yields from the classifier result, the thresholds and
\* the captioner alone
RoutingOf(r) ==
  LET cnn == req[r].cnn_result[1]
      reliable ==
        /\ cnn.confidence_metrics.max_confidence * ThresholdDen
             >= pipeline.confidence_threshold * Scale
        /\ cnn.confidence_metrics.confidence_gap * ThresholdDen
             >= pipeline.confidence_gap_threshold * Scale
  IN  IF reliable
        THEN <<SourceCnn, cnn.disease_name, MaxOf(cnn.raw_predictions), None>>
      ELSE IF pipeline.blip_analyzer
        THEN <<SourceBlip, StrUncertain, MaxOf(cnn.raw_predictions),
               Some(req[r].blip_result[1].combined_description)>>
      ELSE <<SourceLow, cnn.disease_name \o StrLowConfidence,
             MaxOf(cnn.raw_predictions), None>>

\* C28: route, diagnosis, confidence and visual description are fixed by
\* the classifier output, the thresholds and the captioner (its
\* availability and output) alone: from the routing on, through the
\* advisory stage and in the result, they are the values these inputs give,
\* whether the advisory path is enabled or not and whatever the advisory
\* service returns.
C28_RoutingIndependentOfAdvisory ==
  \A r \in Reqs :
    /\ Routed(r) =>
         <<req[r].source[1], req[r].final_diagnosis[1], req[r].final_confidence[1],
           req[r].visual_description>> = RoutingOf(r)
    /\ (req[r].result # None /\ req[r].result[1].success) =>
         <<req[r].result[1].source, req[r].result[1].diagnosis,
           req[r].result[1].confidence, req[r].result[1].visual_description>>
           = RoutingOf(r)

\* C28 witness: a result of the visual route whose remote advice names
\* another diagnosis than the result does
C28_Witness ==
  \E r \in Reqs :
    /\ pc[r] = "done"
    /\ req[r].result[1].success
    /\ calls[r].llm = 1
    /\ req[r].result[1].source = SourceBlip
    /\ req[r].result[1].advice.diagnosis # req[r].result[1].diagnosis

\* C29: a built pipeline's flags and handles agree (use_blip only with an
\* analyzer held, use_llm only with an advisor held), and the advisory step
\* takes the visual template, which reads the captioning result, only in
\* requests whose captioner ran and left a result and a description.
C29_FlagsAndCaptioningResultDefined ==
  /\ pipeline.state = "ready" =>
       /\ pipeline.use_blip => pipeline.blip_analyzer
       /\ pipeline.use_llm => pipeline.advisor
  /\ \A r \in Reqs :
       /\ (pc[r] = "advise" /\ StartsWithBlip(req[r].source[1])) =>
            /\ calls[r].blip = 1
            /\ req[r].blip_result # None
            /\ req[r].visual_description # None
       /\ (req[r].prompt # None /\ req[r].prompt[1].template = "blip") =>
            /\ calls[r].blip = 1
            /\ req[r].blip_result # None
            /\ req[r].prompt[1].visual_description = req[r].visual_description[1]
       /\ req[r].blip_result # None <=> calls[r].blip = 1

\* C29 witness: the visual template was sent for a request whose captioner
\* had failed and left its placeholder result, on a pipeline built with the
\* advisor reachable
C29_Witness ==
  \E r \in Reqs :
    /\ req[r].prompt # None
    /\ req[r].prompt[1].template = "blip"
    /\ calls[r].generate = 1
    /\ req[r].blip_result[1].disease_symptoms = "Analysis failed"

\* Handler q is between the arrival of its request and its return
InProgress(q) == app.h[q].pc \in {"written", "predicted", "except"}

=============================================================================
